---- MODULE Spec2Model ----
(***************************************************************************)
(* Process and thread subsystem of the NewOS kernel (kernel/thread.c, as   *)
(* found in src/kernel/net/udp.c lines 363-3220): run queues and           *)
(* dispatcher, thread creation and self-exit through the death stacks,     *)
(* process creation and exit, process groups and sessions; and the UDP     *)
(* endpoints of lines 1-362.                                               *)
(*                                                                         *)
(* Every action is one critical section of the source (the code between a  *)
(* lock acquisition and its release) or one unlocked step between two      *)
(* critical sections, executed by the thread that is current on a CPU.     *)
(***************************************************************************)
EXTENDS Integers, Sequences, FiniteSets, TLC

VARIABLES
    threads,            \* thread records (struct thread), by record address
    thread_hash,        \* set of records in the thread index
    next_thread_id,
    run_q,              \* run_q[prio]: FIFO of records, for the non-empty levels
    dead_q,             \* pool of dead records
    current,            \* current[c]: record running on CPU c
    death_stack_bitmap,
    death_stack_sem,    \* [count, waiters]
    procs,              \* process records (struct proc), by id
    proc_hash,          \* set of process ids in the process index
    next_proc_id,
    pgid_hash,          \* pgid -> member list, for every published node
    sid_hash,           \* sid  -> member list, for every published node
    last_sends,         \* signals sent by the last process-lock section
    last_pick,          \* what the last thread_resched selected, and the rt_ready it chose from
    rt_ready,           \* records enqueued with a real-time priority, not yet dispatched
    panic,              \* "" or the message of the panic that stopped the kernel
    proc_spinlock,      \* CPU that holds the process lock, or 0
    thread_spinlock,    \* CPU that holds the thread lock, or 0
    lock_path,          \* lock_path[c]: lock operations CPU c still has to perform
    endpoints,          \* UDP endpoints in the endpoints table
    udp_endpoint,       \* UDP endpoint records (struct udp_endpoint)
    cbufs,              \* where each received packet buffer is
    net_threads         \* position of each thread inside the UDP code

vars == <<threads, thread_hash, next_thread_id, run_q, dead_q, current,
          death_stack_bitmap, death_stack_sem, procs, proc_hash, next_proc_id,
          pgid_hash, sid_hash, last_sends, last_pick, rt_ready, panic,
          proc_spinlock, thread_spinlock, lock_path,
          endpoints, udp_endpoint, cbufs, net_threads>>

schedVars == <<run_q, dead_q, current, last_pick, rt_ready>>
procVars  == <<procs, proc_hash, next_proc_id, pgid_hash, sid_hash>>
deathVars == <<death_stack_bitmap, death_stack_sem>>
netVars   == <<endpoints, udp_endpoint, cbufs, net_threads>>
spinVars  == <<proc_spinlock, thread_spinlock, lock_path>>
threadVars == <<threads, thread_hash, next_thread_id, schedVars, deathVars,
                procVars, last_sends, panic>>
\* what the thread code leaves alone, and what the lock paths leave alone
lockVars  == <<spinVars, netVars>>
kernelVars == <<threadVars, netVars>>

-----------------------------------------------------------------------------
(* Bounds of the model *)

NumCPUs     == 1      \* ka->num_cpus
MaxRecs     == 4      \* thread records that kmalloc can hand out besides the idle threads
MaxThreadId == 5      \* thread creation stops when next_thread_id passes this
MaxProcId   == 4      \* process creation stops when next_proc_id passes this

(* Program constants (include/kernel/thread.h) *)

THREAD_IDLE_PRIORITY          == 0
THREAD_NUM_PRIORITY_LEVELS    == 64
THREAD_NUM_RT_PRIORITY_LEVELS == 16
THREAD_MIN_PRIORITY           == THREAD_IDLE_PRIORITY + 1
THREAD_MAX_PRIORITY           == THREAD_NUM_PRIORITY_LEVELS - THREAD_NUM_RT_PRIORITY_LEVELS - 1
THREAD_MIN_RT_PRIORITY        == THREAD_MAX_PRIORITY + 1
THREAD_MAX_RT_PRIORITY        == THREAD_NUM_PRIORITY_LEVELS - 1
THREAD_MEDIUM_PRIORITY        == 24
THREAD_HIGH_PRIORITY          == 36

RAND_SKIP_THRESHOLD == 12288      \* 0x3000 in thread_resched

NULL == 0

NumLockCPUs == 2      \* CPUs that contend for the two global spinlocks
LockCPUs    == 1..NumLockCPUs

CPUs   == 1..NumCPUs
Recs   == 1..(NumCPUs + MaxRecs)
Levels == 0..(THREAD_NUM_PRIORITY_LEVELS - 1)

\* _rand() returns (next >> 16) & 0x7FFF; the two values around the threshold
RandVals == {RAND_SKIP_THRESHOLD, RAND_SKIP_THRESHOLD + 1}

\* priorities handed to thread_set_priority
PrioInputs == {-1, 10, THREAD_MAX_RT_PRIORITY}

-----------------------------------------------------------------------------
(* Sequence helpers (kernel/list.h) *)

RECURSIVE SeqRemove(_, _)
SeqRemove(s, x) ==
    IF s = <<>> THEN <<>>
    ELSE IF Head(s) = x THEN SeqRemove(Tail(s), x)
    ELSE <<Head(s)>> \o SeqRemove(Tail(s), x)

SeqSet(s) == {s[i] : i \in 1..Len(s)}

SeqCount(s, x) == Cardinality({i \in 1..Len(s) : s[i] = x})

list_add_head(s, x) == <<x>> \o s

list_add_tail(s, x) == Append(s, x)

list_delete(s, x) == SeqRemove(s, x)

-----------------------------------------------------------------------------
(* Thread queues *)

\* thread_enqueue inserting at the head of the queue
thread_enqueue_at_head(q, r) == list_add_head(q, r)

\* insert a thread onto the tail of a queue
thread_enqueue(q, r) == list_add_tail(q, r)

thread_lookat_queue(q) == IF q = <<>> THEN NULL ELSE Head(q)

\* thread_dequeue returns the head; this is the queue that remains
thread_dequeue(q) == IF q = <<>> THEN q ELSE Tail(q)

\* run_q is kept as a function on the levels whose list is not empty
RunQ(rq, i) == IF i \in DOMAIN rq THEN rq[i] ELSE <<>>

SetRunQ(rq, i, q) ==
    IF q = <<>> THEN [j \in DOMAIN rq \ {i} |-> rq[j]]
    ELSE [j \in DOMAIN rq \cup {i} |-> IF j = i THEN q ELSE rq[j]]

\* list_delete(&t->q_node): unlink from whichever run queue holds the node
thread_dequeue_thread(rq, r) ==
    LET keep == {i \in DOMAIN rq : list_delete(rq[i], r) # <<>>} IN
    [i \in keep |-> list_delete(rq[i], r)]

thread_lookat_run_q(rq, priority) == thread_lookat_queue(RunQ(rq, priority))

\* the priority thread_enqueue_run_q leaves in t->priority
ClampRunQPriority(p) ==
    IF p > THREAD_MAX_PRIORITY THEN THREAD_MAX_PRIORITY
    ELSE IF p < 0 THEN 0 ELSE p

\* The scheduler state the dispatcher works on, as one record
SchedState ==
    [threads |-> threads, run_q |-> run_q, dead_q |-> dead_q, current |-> current,
     rt_ready |-> rt_ready, last_pick |-> last_pick, panic |-> panic]

thread_enqueue_run_q(st, r) ==
    LET p == ClampRunQPriority(st.threads[r].priority) IN
    [st EXCEPT !.threads[r].priority = p,
               !.run_q = SetRunQ(st.run_q, p, thread_enqueue(RunQ(st.run_q, p), r)),
               !.rt_ready = IF st.threads[r].priority >= THREAD_MIN_RT_PRIORITY
                            THEN @ \cup {r} ELSE @]

-----------------------------------------------------------------------------
(* Dispatcher *)

\* the outgoing thread is filed but keeps the state it had
ReschedOutgoingKeepsState(st, c) ==
    LET old == st.current[c]
        ns  == st.threads[old].next_state
    IN  IF ns \in {"RUNNING", "READY"} THEN thread_enqueue_run_q(st, old)
        ELSE IF ns = "FREE_ON_RESCHED"
             THEN [st EXCEPT !.dead_q = thread_enqueue(st.dead_q, old)]
        ELSE st

\* the outgoing thread is put on no run queue when it stays runnable
ReschedOutgoingDropsReady(st, c) ==
    LET old == st.current[c]
        ns  == st.threads[old].next_state
        s1  == IF ns = "FREE_ON_RESCHED"
               THEN [st EXCEPT !.dead_q = thread_enqueue(st.dead_q, old)]
               ELSE st
    IN  [s1 EXCEPT !.threads[old].state = ns]

\* first part of thread_resched: file the outgoing thread by its next_state
ReschedOutgoing(st, c) ==
    LET old == st.current[c]
        ns  == st.threads[old].next_state
        s1  == IF ns \in {"RUNNING", "READY"} THEN thread_enqueue_run_q(st, old)
               ELSE IF ns = "FREE_ON_RESCHED"
                    THEN [st EXCEPT !.dead_q = thread_enqueue(st.dead_q, old)]
               ELSE st
    IN  [s1 EXCEPT !.threads[old].state = ns]

RegularLevels == (THREAD_IDLE_PRIORITY + 1)..THREAD_MAX_PRIORITY

NonEmptyRegular(rq) == DOMAIN rq \cap RegularLevels

\* one _rand() result for every level at which the regular scan draws one
RandDraws(rq) == [NonEmptyRegular(rq) -> RandVals]

SetMax(S) == CHOOSE x \in S : \A y \in S : y <= x

\* search the real-time queue, from THREAD_MAX_RT_PRIORITY down: the highest
\* level with a thread on it, -1 when there is none
ScanRT(rq) ==
    LET rt == {i \in DOMAIN rq : i >= THREAD_MIN_RT_PRIORITY /\ i <= THREAD_MAX_RT_PRIORITY}
    IN  IF rt = {} THEN 0 - 1 ELSE SetMax(rt)

\* search the regular queue, from THREAD_MAX_PRIORITY down to above
\* THREAD_IDLE_PRIORITY; levels is the set of non-empty levels still to visit.
\* <<level picked or -1, last_thread_pri>>
RECURSIVE ScanRegular(_, _, _)
ScanRegular(levels, rnd, last_thread_pri) ==
    IF levels = {} THEN <<0 - 1, last_thread_pri>>
    ELSE LET i == SetMax(levels) IN
         IF rnd[i] > RAND_SKIP_THRESHOLD
         THEN <<i, last_thread_pri>>
         ELSE ScanRegular(levels \ {i}, rnd, i)

\* the level thread_resched dequeues from; -1 when it panics
ReschedSelect(rq, rnd) ==
    LET rt == ScanRT(rq) IN
    IF rt # -1 THEN rt
    ELSE LET reg == ScanRegular(NonEmptyRegular(rq), rnd, 0 - 1) IN
         IF reg[1] # -1 THEN reg[1]
         ELSE IF reg[2] # -1 THEN reg[2]
         ELSE IF thread_lookat_run_q(rq, THREAD_IDLE_PRIORITY) # NULL
              THEN THREAD_IDLE_PRIORITY
         ELSE 0 - 1

thread_context_switch(st, c, t_from, t_to) ==
    [st EXCEPT !.threads[t_to].cpu = st.threads[t_from].cpu,
               !.threads[t_from].cpu = NULL,
               !.current[c] = t_to]

thread_resched(st, c, rnd) ==
    LET old == st.current[c]
        s1  == ReschedOutgoing(st, c)
        lvl == ReschedSelect(s1.run_q, rnd)
    IN  IF lvl = -1
        THEN [s1 EXCEPT !.panic = "next_thread == NULL! no idle priorities!"]
        ELSE LET next == thread_lookat_run_q(s1.run_q, lvl)
                 s2 == [s1 EXCEPT !.run_q = SetRunQ(s1.run_q, lvl,
                                                thread_dequeue(RunQ(s1.run_q, lvl))),
                                  !.threads[next].state = "RUNNING",
                                  !.threads[next].next_state = "READY",
                                  !.rt_ready = @ \ {next},
                                  !.last_pick = [cpu |-> c, thread |-> next,
                                                 level |-> lvl, rt |-> s1.rt_ready]]
             IN  IF next # old THEN thread_context_switch(s2, c, old, next) ELSE s2

\* all outcomes of thread_resched on CPU c from st
ReschedOutcomes(st, c) ==
    {thread_resched(st, c, rnd) : rnd \in RandDraws(ReschedOutgoing(st, c).run_q)}

SchedCommit(st) ==
    /\ threads' = st.threads
    /\ run_q' = st.run_q
    /\ dead_q' = st.dead_q
    /\ current' = st.current
    /\ rt_ready' = st.rt_ready
    /\ last_pick' = st.last_pick
    /\ panic' = st.panic

-----------------------------------------------------------------------------
(* Records *)

KERNEL_PROC == 1      \* kernel_proc->id: the first id next_proc_id hands out

ProcIds == 1..MaxProcId

\* error codes (newos/errors.h)
NO_ERROR              == 0
ERR_NO_MEMORY         == 0 - 1
ERR_INVALID_HANDLE    == 0 - 2
ERR_TASK_PROC_DELETED == 0 - 3
ERR_INVALID_ARGS      == 0 - 4
ERR_SEM_DELETED       == 0 - 5
ERR_NOT_FOUND         == 0 - 6

\* memory kmalloc has not handed out, or that kfree took back
FreeThread ==
    [id |-> 0, state |-> "UNALLOC", next_state |-> "UNALLOC", priority |-> 0 - 1,
     cpu |-> NULL, proc |-> NULL, sig_pending |-> {}, return_code_sem |-> FALSE,
     pc |-> "none", nt |-> NULL, arg |-> 0, fl |-> {}, caller |-> "", ret |-> 0,
     arg2 |-> 0,                \* the second argument of the call in progress
     sem_blocking |-> 0 - 1,    \* the semaphore this thread acquires
     retcode |-> 0,             \* the argument of this thread's thread_exit
     wait_retcode |-> 0 - 1]    \* *retcode of this thread's thread_wait_on_thread

FreeProc ==
    [state |-> "NONE", parent |-> NULL, children |-> <<>>, thread_list |-> <<>>,
     num_threads |-> 0, main_thread |-> NULL, pgid |-> 0 - 1, sid |-> 0 - 1]

\* create_thread_struct: the fields it sets in the record it obtained
create_thread_struct(id) ==
    [FreeThread EXCEPT !.id = id, !.state = "BIRTH", !.next_state = "SUSPENDED",
                       !.priority = THREAD_MEDIUM_PRIORITY,
                       !.return_code_sem = TRUE, !.pc = "run"]

create_proc_struct == [FreeProc EXCEPT !.state = "BIRTH"]

\* insert_thread_into_proc designating every inserted thread as main_thread
insert_thread_always_main(P, p, r) ==
    [P EXCEPT ![p].thread_list = list_add_head(@, r),
              ![p].num_threads = @ + 1,
              ![p].main_thread = r]

insert_thread_into_proc(P, p, r) ==
    [P EXCEPT ![p].thread_list = list_add_head(@, r),
              ![p].num_threads = @ + 1,
              ![p].main_thread = IF P[p].num_threads + 1 = 1 THEN r ELSE @]

remove_thread_from_proc(P, p, r) ==
    [P EXCEPT ![p].thread_list = list_delete(@, r),
              ![p].num_threads = @ - 1]

thread_get_thread_struct_locked(T, H, id) ==
    IF \E r \in H : T[r].id = id THEN CHOOSE r \in H : T[r].id = id ELSE NULL

proc_get_proc_struct_locked(H, id) == IF id \in H THEN id ELSE NULL

-----------------------------------------------------------------------------
(* thread_init *)

\* the idle thread of CPU i lives in record i and gets thread id i
IdleThread(i) ==
    [create_thread_struct(i) EXCEPT !.proc = KERNEL_PROC,
                                    !.priority = THREAD_IDLE_PRIORITY,
                                    !.state = "RUNNING", !.next_state = "READY",
                                    !.cpu = i]

RECURSIVE IdleThreadList(_)
IdleThreadList(n) == IF n = 0 THEN <<>> ELSE list_add_head(IdleThreadList(n - 1), n)

\* num_death_stacks = smp_get_num_cpus(), at most 32; every CPU has its entry
\* in current
num_death_stacks ==
    IF Cardinality(DOMAIN current) > 32 THEN 32 ELSE Cardinality(DOMAIN current)

NumEndpoints == 2     \* sockets opened through udp_open
NumPorts     == 2     \* port numbers in use
NumInputs    == 2     \* threads that hand received packets to udp_input
NumCbufs     == 2     \* packets received

Endpoints  == 1..NumEndpoints
Ports      == 1..NumPorts
Owners     == 1..NumEndpoints
Inputs     == (NumEndpoints + 1)..(NumEndpoints + NumInputs)
NetThreads == Owners \cup Inputs
Cbufs      == 1..NumCbufs

\* an endpoint record that udp_open has not set up
NoEndpoint ==
    [port |-> 0, ref_count |-> 0, q |-> <<>>, lock |-> "none",
     blocking_sem |-> "none", sem_count |-> 0, teardowns |-> 0]

NetIdle == [pc |-> "idle", e |-> NULL, buf |-> NULL, after |-> ""]

\* udp_init: an empty endpoints table
udp_init ==
    /\ endpoints = {}
    /\ udp_endpoint = [e \in Endpoints |-> NoEndpoint]
    /\ cbufs = [b \in Cbufs |-> "wire"]
    /\ net_threads = [t \in NetThreads |-> NetIdle]

Init ==
    /\ threads = [r \in Recs |-> IF r \in CPUs THEN IdleThread(r) ELSE FreeThread]
    /\ thread_hash = CPUs
    /\ next_thread_id = NumCPUs + 1
    /\ run_q = <<>>
    /\ dead_q = <<>>
    /\ current = [c \in CPUs |-> c]
    /\ death_stack_bitmap = {}
    /\ death_stack_sem = [count |-> num_death_stacks, waiters |-> <<>>]
    /\ procs = [p \in ProcIds |->
                  IF p = KERNEL_PROC
                  THEN [create_proc_struct EXCEPT
                            !.state = "NORMAL", !.parent = KERNEL_PROC,
                            !.pgid = KERNEL_PROC, !.sid = KERNEL_PROC,
                            !.thread_list = IdleThreadList(NumCPUs),
                            !.num_threads = NumCPUs, !.main_thread = 1]
                  ELSE FreeProc]
    /\ proc_hash = {KERNEL_PROC}
    /\ next_proc_id = KERNEL_PROC + 1
    /\ pgid_hash = (KERNEL_PROC :> <<KERNEL_PROC>>)
    /\ sid_hash = (KERNEL_PROC :> <<KERNEL_PROC>>)
    /\ last_sends = <<>>
    /\ last_pick = [cpu |-> 0, thread |-> NULL, level |-> 0 - 1, rt |-> {}]
    /\ rt_ready = {}
    /\ panic = ""
    /\ proc_spinlock = 0
    /\ thread_spinlock = 0
    /\ lock_path = [c \in LockCPUs |-> <<>>]
    /\ udp_init

-----------------------------------------------------------------------------
(* Who may act *)

\* program points at which the current thread runs with interrupts disabled
IntsDisabledPcs == {"ct_proc", "ct_abort", "te_unhash", "te_put", "dead"}

AtPc(c, pc) == panic = "" /\ threads[current[c]].pc = pc

IsIdle(r) == r \in CPUs

-----------------------------------------------------------------------------
(* thread_yield, and the quantum timer's reschedule_event *)

thread_yield(c) ==
    /\ AtPc(c, "run")
    /\ \E res \in ReschedOutcomes(SchedState, c) : SchedCommit(res)
    /\ UNCHANGED <<thread_hash, next_thread_id, deathVars, procVars, last_sends>>
    /\ UNCHANGED lockVars

reschedule_event(c) ==
    /\ panic = ""
    /\ threads[current[c]].pc \notin ({"run"} \cup IntsDisabledPcs)
    /\ \E res \in ReschedOutcomes(SchedState, c) : SchedCommit(res)
    /\ UNCHANGED <<thread_hash, next_thread_id, deathVars, procVars, last_sends>>
    /\ UNCHANGED lockVars

-----------------------------------------------------------------------------
(* thread_set_priority *)

ClampSetPriority(priority) ==
    IF priority > THREAD_MAX_RT_PRIORITY THEN THREAD_MAX_RT_PRIORITY
    ELSE IF priority < THREAD_MIN_PRIORITY THEN THREAD_MIN_PRIORITY
    ELSE priority

\* thread_set_priority writing the new priority without moving a READY thread
set_priority_in_place(st, H, self, id, priority) ==
    LET pr == ClampSetPriority(priority)
        t  == thread_get_thread_struct_locked(st.threads, H, id)
    IN  IF st.threads[self].id = id
        THEN [st EXCEPT !.threads[self].priority = pr]
        ELSE IF t = NULL THEN st
        ELSE [st EXCEPT !.threads[t].priority = pr]

\* the scheduler state thread_set_priority leaves, called by record self
set_priority(st, H, self, id, priority) ==
    LET pr == ClampSetPriority(priority)
        t  == thread_get_thread_struct_locked(st.threads, H, id)
    IN  IF st.threads[self].id = id
        THEN [st EXCEPT !.threads[self].priority = pr]
        ELSE IF t = NULL THEN st
        ELSE IF st.threads[t].state = "READY" /\ st.threads[t].priority # pr
             THEN thread_enqueue_run_q(
                      [st EXCEPT !.run_q = thread_dequeue_thread(st.run_q, t),
                                 !.rt_ready = @ \ {t},
                                 !.threads[t].priority = pr], t)
        ELSE [st EXCEPT !.threads[t].priority = pr]

\* retval of thread_set_priority
set_priority_retval(T, H, self, id) ==
    IF T[self].id = id \/ thread_get_thread_struct_locked(T, H, id) # NULL
    THEN NO_ERROR ELSE ERR_INVALID_HANDLE

thread_set_priority(c, id, priority) ==
    /\ AtPc(c, "run")
    /\ LET self == current[c]
           res  == set_priority(SchedState, thread_hash, self, id, priority)
       IN  SchedCommit([res EXCEPT !.threads[self].ret =
                           set_priority_retval(threads, thread_hash, self, id)])
    /\ UNCHANGED <<thread_hash, next_thread_id, deathVars, procVars, last_sends>>
    /\ UNCHANGED lockVars

-----------------------------------------------------------------------------
(* Signals (kernel/signal.c): what the thread code relies on *)

\* signals whose pending bit changes what the target does next
TrackedSignals == {"SIGSTOP", "SIGKILLTHR"}

\* send_signal_etc with SIG_FLAG_NO_RESCHED: mark the signal pending and put a
\* SUSPENDED target of SIGCONT or SIGKILLTHR back on its run queue
send_signal_etc(st, H, id, sig) ==
    LET t == thread_get_thread_struct_locked(st.threads, H, id) IN
    IF t = NULL THEN st
    ELSE LET s1 == IF sig \in TrackedSignals
                   THEN [st EXCEPT !.threads[t].sig_pending = @ \cup {sig}]
                   ELSE st
         IN  IF sig \in {"SIGCONT", "SIGKILLTHR"} /\ st.threads[t].state = "SUSPENDED"
             THEN thread_enqueue_run_q(
                      [s1 EXCEPT !.threads[t].state = "READY",
                                 !.threads[t].next_state = "READY"], t)
             ELSE s1

thread_resume_thread(c, id) ==
    /\ AtPc(c, "run")
    /\ LET res == send_signal_etc(SchedState, thread_hash, id, "SIGCONT") IN
       SchedCommit(res)
    /\ UNCHANGED <<thread_hash, next_thread_id, deathVars, procVars, last_sends>>
    /\ UNCHANGED lockVars

thread_suspend_thread(c, id) ==
    /\ AtPc(c, "run")
    /\ LET res == send_signal_etc(SchedState, thread_hash, id, "SIGSTOP") IN
       SchedCommit(res)
    /\ UNCHANGED <<thread_hash, next_thread_id, deathVars, procVars, last_sends>>
    /\ UNCHANGED lockVars

-----------------------------------------------------------------------------
(* _create_thread *)

\* the record create_thread_struct works on: the head of the dead queue, else
\* fresh memory from kmalloc, else NULL
AllocThreadRec ==
    IF dead_q # <<>> THEN Head(dead_q)
    ELSE IF \E r \in Recs : threads[r].state = "UNALLOC"
         THEN CHOOSE r \in Recs : threads[r].state = "UNALLOC" /\
                  \A q \in Recs : threads[q].state = "UNALLOC" => r <= q
    ELSE NULL

\* create_thread_struct and the private initialisation that follows it;
\* pid is the target process, caller the operation that continues afterwards
CreateThreadBegin(c, pid, caller) ==
    LET self == current[c]
        t    == AllocThreadRec
    IN  /\ next_thread_id <= MaxThreadId
        /\ IF t = NULL
           THEN /\ threads' = [threads EXCEPT ![self].ret = ERR_NO_MEMORY,
                                    ![self].pc = IF caller = "proc_create_proc"
                                                 THEN "pc_err1" ELSE "run"]
                /\ UNCHANGED <<next_thread_id, dead_q>>
           ELSE /\ threads' = [threads EXCEPT
                                    ![t] = [create_thread_struct(next_thread_id) EXCEPT
                                               !.pc = IF caller = "proc_create_proc"
                                                      THEN "launch" ELSE "run"],
                                    ![self].nt = t, ![self].arg = pid, ![self].ret = 0,
                                    ![self].caller = caller,
                                    ![self].pc = "ct_hash"]
                /\ next_thread_id' = next_thread_id + 1
                /\ dead_q' = thread_dequeue(dead_q)

\* user_thread_create_user_thread / thread_create_kernel_thread: a thread in
\* the caller's own process
thread_create_thread(c) ==
    /\ AtPc(c, "run")
    /\ CreateThreadBegin(c, threads[current[c]].proc, "")
    /\ UNCHANGED <<thread_hash, run_q, current, last_pick, rt_ready, panic,
                   deathVars, procVars, last_sends>>
    /\ UNCHANGED lockVars

\* insert into global list
ct_hash(c) ==
    /\ AtPc(c, "ct_hash")
    /\ thread_hash' = thread_hash \cup {threads[current[c]].nt}
    /\ threads' = [threads EXCEPT ![current[c]].pc = "ct_proc"]
    /\ UNCHANGED <<next_thread_id, schedVars, panic, deathVars, procVars, last_sends>>
    /\ UNCHANGED lockVars

\* look at the proc, make sure it's not being deleted
ct_proc(c) ==
    /\ AtPc(c, "ct_proc")
    /\ LET self == current[c]
           t == threads[self].nt
           p == proc_get_proc_struct_locked(proc_hash, threads[self].arg)
       IN  IF p # NULL /\ procs[p].state # "DEATH"
           THEN /\ procs' = insert_thread_into_proc(procs, p, t)
                /\ threads' = [threads EXCEPT ![t].proc = p, ![self].pc = "ct_finish"]
           ELSE /\ threads' = [threads EXCEPT ![self].pc = "ct_abort"]
                /\ UNCHANGED procs
    /\ UNCHANGED <<thread_hash, next_thread_id, schedVars, panic, deathVars,
                   proc_hash, next_proc_id, pgid_hash, sid_hash, last_sends>>
    /\ UNCHANGED lockVars

\* the abort path without the hash_remove
ct_abort_leaves_index(c) ==
    /\ AtPc(c, "ct_abort")
    /\ LET self == current[c] IN
       threads' = [threads EXCEPT
                   ![self].nt = NULL, ![self].arg = 0, ![self].caller = "",
                   ![self].ret = ERR_TASK_PROC_DELETED,
                   ![self].pc = IF threads[self].caller = "proc_create_proc"
                                THEN "pc_err1" ELSE "run"]
    /\ UNCHANGED <<thread_hash, next_thread_id, schedVars, panic, deathVars,
                   procVars, last_sends>>
    /\ UNCHANGED lockVars

\* abort: undo the insertion into the thread index, delete_thread_struct
ct_abort(c) ==
    /\ AtPc(c, "ct_abort")
    /\ LET self == current[c]
           t == threads[self].nt
       IN  /\ thread_hash' = thread_hash \ {t}
           /\ threads' = [threads EXCEPT
                   ![t] = FreeThread,
                   ![self].nt = NULL, ![self].arg = 0, ![self].caller = "",
                   ![self].ret = ERR_TASK_PROC_DELETED,
                   ![self].pc = IF threads[self].caller = "proc_create_proc"
                                THEN "pc_err1" ELSE "run"]
    /\ UNCHANGED <<next_thread_id, schedVars, panic, deathVars, procVars, last_sends>>
    /\ UNCHANGED lockVars

\* _create_thread handing the new thread over as READY
ct_finish_ready(c) ==
    /\ AtPc(c, "ct_finish")
    /\ LET self == current[c]
           t == threads[self].nt
       IN  threads' = [threads EXCEPT
                   ![t].state = "READY",
                   ![self].nt = NULL, ![self].caller = "",
                   ![self].arg = IF threads[self].caller = "proc_create_proc"
                                 THEN @ ELSE 0,
                   ![self].ret = threads[t].id,
                   ![self].pc = IF threads[self].caller = "proc_create_proc"
                                THEN "pc_resume" ELSE "run"]
    /\ UNCHANGED <<thread_hash, next_thread_id, schedVars, panic, deathVars,
                   procVars, last_sends>>
    /\ UNCHANGED lockVars

\* kernel stack, user stack; set the initial state of the thread to suspended
ct_finish(c) ==
    /\ AtPc(c, "ct_finish")
    /\ LET self == current[c]
           t == threads[self].nt
       IN  threads' = [threads EXCEPT
                   ![t].state = "SUSPENDED",
                   ![self].nt = NULL, ![self].caller = "",
                   ![self].arg = IF threads[self].caller = "proc_create_proc"
                                 THEN @ ELSE 0,
                   ![self].ret = threads[t].id,
                   ![self].pc = IF threads[self].caller = "proc_create_proc"
                                THEN "pc_resume" ELSE "run"]
    /\ UNCHANGED <<thread_hash, next_thread_id, schedVars, panic, deathVars,
                   procVars, last_sends>>
    /\ UNCHANGED lockVars

-----------------------------------------------------------------------------
(* Process tree, process groups and sessions.  These operators run under   *)
(* the process lock and work on one record of everything that lock covers: *)
(*   procs, proc_hash, pgid_hash, sid_hash, sched (the scheduler state the *)
(*   signal sends change), sends (the signals sent so far), fault          *)
(* ub says what a read through a NULL main_thread or of freed memory does: *)
(* -1 faults (the kernel stops there), g >= 0 goes on, and a thread id     *)
(* read through NULL reads g.                                              *)

UBOutcomes == (0 - 1)..MaxThreadId

ProcState ==
    [procs |-> procs, proc_hash |-> proc_hash, pgid_hash |-> pgid_hash,
     sid_hash |-> sid_hash, sched |-> SchedState, sends |-> <<>>, fault |-> ""]

\* a use of process record q: freed memory faults or is read as it was left
TouchProc(ps, q, ub) ==
    IF ps.fault = "" /\ ps.procs[q].state = "FREED" /\ ub = -1
    THEN [ps EXCEPT !.fault = "use of a freed process record"]
    ELSE ps

\* insert_proc_into_parent linking the node without setting p->parent
insert_proc_without_parent(ps, parent, p) ==
    [ps EXCEPT !.procs[parent].children = list_add_head(@, p)]

insert_proc_into_parent(ps, parent, p) ==
    [ps EXCEPT !.procs[parent].children = list_add_head(@, p),
               !.procs[p].parent = parent]

\* list_delete(&p->siblings_node) unlinks p from the list its node is on
remove_proc_from_parent(ps, parent, p) ==
    [ps EXCEPT !.procs = [q \in DOMAIN ps.procs |->
                            IF q = p
                            THEN [ps.procs[q] EXCEPT !.parent = NULL,
                                                     !.children = list_delete(@, p)]
                            ELSE [ps.procs[q] EXCEPT !.children = list_delete(@, p)]]]

add_proc_to_pgroup(ps, p, pgid) ==
    IF pgid \notin DOMAIN ps.pgid_hash THEN ps
    ELSE [ps EXCEPT !.procs[p].pgid = pgid,
                    !.pgid_hash[pgid] = list_add_head(@, p)]

\* list_delete(&p->pg_node) unlinks p from the member list its node is on
remove_proc_from_pgroup(ps, p, pgid) ==
    IF pgid \notin DOMAIN ps.pgid_hash THEN ps
    ELSE [ps EXCEPT !.pgid_hash = [g \in DOMAIN ps.pgid_hash |->
                                      list_delete(ps.pgid_hash[g], p)]]

add_proc_to_session(ps, p, sid) ==
    IF sid \notin DOMAIN ps.sid_hash THEN ps
    ELSE [ps EXCEPT !.procs[p].sid = sid,
                    !.sid_hash[sid] = list_add_head(@, p)]

remove_proc_from_session(ps, p, sid) ==
    IF sid \notin DOMAIN ps.sid_hash THEN ps
    ELSE [ps EXCEPT !.sid_hash = [g \in DOMAIN ps.sid_hash |->
                                     list_delete(ps.sid_hash[g], p)]]

\* hash_insert of a node made by create_pgroup_struct / create_session_struct
\* A table maps every id that hash_lookup finds to the member list of the node
\* it finds.  A node with an id that is in the table already is inserted all
\* the same; the older node, which hash_lookup no longer reaches, is kept with
\* its members under ShadowedNode(id).
ShadowedNode(id) == 0 - 100 - id

InsertNode(h, id) ==
    IF id \in DOMAIN h
    THEN [g \in DOMAIN h \cup {ShadowedNode(id)} |->
             IF g = id THEN <<>>
             ELSE IF g = ShadowedNode(id)
                  THEN (IF g \in DOMAIN h THEN h[g] ELSE <<>>) \o h[id]
             ELSE h[g]]
    ELSE [g \in DOMAIN h \cup {id} |-> IF g \in DOMAIN h THEN h[g] ELSE <<>>]

\* "check before we add the newly created pgroup struct to the hash. it could
\* have been created while we had the PROC_LOCK released."
PublishNode(h, id) == IF id \in DOMAIN h THEN h ELSE InsertNode(h, id)

\* the loop of check_for_pgrp_connection over the member list
RECURSIVE PgrpConnection(_, _, _, _)
PgrpConnection(P, members, check_for, ignore_proc) ==
    IF members = <<>> THEN FALSE
    ELSE LET temp_proc == Head(members) IN
         IF temp_proc # ignore_proc /\ P[temp_proc].parent # NULL
                /\ P[P[temp_proc].parent].pgid = check_for
         THEN TRUE
         ELSE PgrpConnection(P, Tail(members), check_for, ignore_proc)

check_for_pgrp_connection(ps, pgid, check_for, ignore_proc) ==
    IF pgid \notin DOMAIN ps.pgid_hash THEN FALSE
    ELSE PgrpConnection(ps.procs, ps.pgid_hash[pgid], check_for, ignore_proc)

\* the member records check_for_pgrp_connection reads before it returns
RECURSIVE ConnectionReads(_, _, _, _)
ConnectionReads(P, members, check_for, ignore_proc) ==
    IF members = <<>> THEN {}
    ELSE LET temp_proc == Head(members) IN
         IF temp_proc # ignore_proc /\ P[temp_proc].parent # NULL
                /\ P[P[temp_proc].parent].pgid = check_for
         THEN {temp_proc, P[temp_proc].parent}
         ELSE {temp_proc} \cup (IF P[temp_proc].parent # NULL
                                THEN {P[temp_proc].parent} ELSE {})
                \cup ConnectionReads(P, Tail(members), check_for, ignore_proc)

\* send_signal_etc(p->main_thread->id, signal, flags | SIG_FLAG_NO_RESCHED)
\* for one member of the list
SendToMainThread(ps, p, signal, ub) ==
    LET ps1 == TouchProc(ps, p, ub) IN
    IF ps1.fault # "" THEN ps1
    ELSE IF ps1.procs[p].main_thread = NULL
         THEN IF ub = -1
              THEN [ps1 EXCEPT !.fault = "main_thread is NULL"]
              ELSE [ps1 EXCEPT
                       !.sends = Append(@, <<ub, signal>>),
                       !.sched = send_signal_etc(ps1.sched, thread_hash, ub, signal)]
    ELSE LET id == ps1.sched.threads[ps1.procs[p].main_thread].id IN
         [ps1 EXCEPT !.sends = Append(@, <<id, signal>>),
                     !.sched = send_signal_etc(ps1.sched, thread_hash, id, signal)]

RECURSIVE SendToMembers(_, _, _, _)
SendToMembers(ps, members, signal, ub) ==
    IF members = <<>> \/ ps.fault # "" THEN ps
    ELSE SendToMembers(SendToMainThread(ps, Head(members), signal, ub),
                       Tail(members), signal, ub)

send_pgrp_signal_etc_locked(ps, pgid, signal, ub) ==
    IF ps.fault # "" \/ pgid \notin DOMAIN ps.pgid_hash THEN ps
    ELSE SendToMembers(ps, ps.pgid_hash[pgid], signal, ub)

\* the orphan test and the SIGHUP, SIGCONT it leads to, as thread_exit and
\* proc_reparent_children both write it
SignalIfOrphaned(ps, pgid, check_for, ignore_proc, ub) ==
    LET members == IF pgid \in DOMAIN ps.pgid_hash THEN ps.pgid_hash[pgid] ELSE <<>>
        reads == ConnectionReads(ps.procs, members, check_for, ignore_proc)
    IN  IF ps.fault # "" THEN ps
        ELSE IF ub = -1 /\ \E q \in reads : ps.procs[q].state = "FREED"
             THEN [ps EXCEPT !.fault = "use of a freed process record"]
        ELSE IF check_for_pgrp_connection(ps, pgid, check_for, ignore_proc) THEN ps
        ELSE send_pgrp_signal_etc_locked(
                 send_pgrp_signal_etc_locked(ps, pgid, "SIGHUP", ub),
                 pgid, "SIGCONT", ub)

\* one round of the loop of proc_reparent_children
ReparentChild(ps, p, child, ub) ==
    LET ps1 == TouchProc(ps, child, ub) IN
    IF ps1.fault # "" THEN ps1
    ELSE LET ps2 == insert_proc_into_parent(remove_proc_from_parent(ps1, p, child),
                                           ps1.procs[p].parent, child)
         IN  IF ps2.procs[p].sid = ps2.procs[child].sid
                    /\ ps2.procs[p].pgid # ps2.procs[child].pgid
             THEN SignalIfOrphaned(ps2, ps2.procs[child].pgid, ps2.procs[p].pgid, NULL, ub)
             ELSE ps2

RECURSIVE ReparentLoop(_, _, _, _)
ReparentLoop(ps, p, children, ub) ==
    IF children = <<>> \/ ps.fault # "" THEN ps
    ELSE ReparentLoop(ReparentChild(ps, p, Head(children), ub), p, Tail(children), ub)

proc_reparent_children(ps, p, ub) == ReparentLoop(ps, p, ps.procs[p].children, ub)

\* thread_exit, the process-lock section that takes process p apart
ExitTeardown(ps, p, ub) ==
    LET parent == ps.procs[p].parent
        s1 == IF ps.procs[p].sid = ps.procs[parent].sid
                    /\ ps.procs[p].pgid # ps.procs[parent].pgid
              THEN SignalIfOrphaned(ps, ps.procs[p].pgid, ps.procs[parent].pgid, p, ub)
              ELSE ps
        s2 == IF s1.fault # "" THEN s1
              ELSE [s1 EXCEPT !.proc_hash = @ \ {p}]
        s3 == IF s2.fault # "" THEN s2 ELSE proc_reparent_children(s2, p, ub)
        s4 == IF s3.fault # "" THEN s3
              ELSE remove_proc_from_parent(
                       remove_proc_from_session(
                           remove_proc_from_pgroup(s3, p, s3.procs[p].pgid),
                           p, s3.procs[p].sid),
                       s3.procs[p].parent, p)
    IN  s4

ProcCommit(ps) ==
    /\ procs' = ps.procs
    /\ proc_hash' = ps.proc_hash
    /\ pgid_hash' = ps.pgid_hash
    /\ sid_hash' = ps.sid_hash
    /\ last_sends' = ps.sends
    /\ SchedCommit([ps.sched EXCEPT !.panic = ps.fault])

-----------------------------------------------------------------------------
(* Semaphores (kernel/sem.c): what the thread code relies on *)

\* the current thread blocks: thread_resched with next_state WAITING
BlockCurrent(st, c) == [st EXCEPT !.threads[st.current[c]].next_state = "WAITING"]

\* a blocked thread is made runnable again
WakeThread(st, r) ==
    thread_enqueue_run_q([st EXCEPT !.threads[r].state = "READY",
                                    !.threads[r].next_state = "READY"], r)

\* A thread's return_code_sem is named by the id of the thread it belongs to;
\* its handle stays valid until thread_exit deletes it.
SemExists(T, sem) == \E r \in Recs : T[r].id = sem /\ T[r].return_code_sem

\* threads blocked in sem_acquire_etc on the semaphore
SemWaiters(T, sem) ==
    {r \in Recs : T[r].state = "WAITING" /\ T[r].pc = "tw_return"
                     /\ T[r].sem_blocking = sem}

\* sem_delete_etc(sem, retcode): every waiter is released with ERR_SEM_DELETED
\* and gets the retcode the semaphore was deleted with
RECURSIVE ReleaseDeleted(_, _, _)
ReleaseDeleted(st, waiters, retcode) ==
    IF waiters = {} THEN st
    ELSE LET r == CHOOSE x \in waiters : \A y \in waiters : x <= y
         IN  ReleaseDeleted(
                 WakeThread([st EXCEPT !.threads[r].ret = ERR_SEM_DELETED,
                                       !.threads[r].wait_retcode = retcode], r),
                 waiters \ {r}, retcode)

sem_delete_etc(st, sem, retcode) ==
    ReleaseDeleted(st, SemWaiters(st.threads, sem), retcode)

\* the timeout of thread_snooze expires for a thread waiting in it
snooze_timeout(r) ==
    /\ panic = ""
    /\ threads[r].state = "WAITING"
    /\ threads[r].pc = "te_wait"
    /\ SchedCommit(WakeThread(SchedState, r))
    /\ UNCHANGED <<thread_hash, next_thread_id, deathVars, procVars, last_sends>>
    /\ UNCHANGED lockVars

-----------------------------------------------------------------------------
(* Death stacks *)

\* unsigned int death_stack_bitmap, as the set of the numbers of its set bits
BitmapBits == 0..31

BitSet(bitmap, i) == i \in bitmap

\* bit = (~bit) & ~((~bit) - 1): the lowest clear bit, as a bit number; -1 if none
\* the search for a free spot taking the highest clear bit
HighestClearBit(bitmap) ==
    IF BitmapBits \ bitmap = {} THEN 0 - 1
    ELSE CHOOSE i \in BitmapBits \ bitmap : \A j \in BitmapBits \ bitmap : i >= j

LowestClearBit(bitmap) ==
    IF BitmapBits \ bitmap = {} THEN 0 - 1
    ELSE CHOOSE i \in BitmapBits \ bitmap : \A j \in BitmapBits \ bitmap : i <= j

SetBit(bitmap, i) == bitmap \cup {i}

ClearBit(bitmap, i) == bitmap \ {i}

PopCount(bitmap) == Cardinality(bitmap)

-----------------------------------------------------------------------------
(* thread_exit *)

\* boost our priority to get this over with
thread_exit(c, retcode) ==
    /\ (AtPc(c, "run") \/ AtPc(c, "launch"))
    /\ ~IsIdle(current[c])
    /\ threads' = [threads EXCEPT
                       ![current[c]].priority = ClampSetPriority(THREAD_HIGH_PRIORITY),
                       ![current[c]].ret = 0,
                       ![current[c]].retcode = retcode,
                       ![current[c]].wait_retcode = 0 - 1,
                       ![current[c]].pc = "te_detach"]
    /\ UNCHANGED <<thread_hash, next_thread_id, schedVars, panic, deathVars,
                   procVars, last_sends>>
    /\ UNCHANGED lockVars

\* remove this thread from the current process and add it to the kernel
te_detach(c) ==
    /\ AtPc(c, "te_detach")
    /\ LET self == current[c]
           p == threads[self].proc
           delete_proc == procs[p].main_thread = self
           P1 == insert_thread_into_proc(remove_thread_from_proc(procs, p, self),
                                         KERNEL_PROC, self)
       IN  IF p # KERNEL_PROC
           THEN /\ procs' = IF delete_proc THEN [P1 EXCEPT ![p].state = "DEATH"] ELSE P1
                /\ threads' = [threads EXCEPT
                                   ![self].proc = KERNEL_PROC,
                                   ![self].arg = IF delete_proc THEN p ELSE 0,
                                   ![self].pc = IF delete_proc THEN "te_kill"
                                                ELSE "te_retcode"]
           ELSE /\ threads' = [threads EXCEPT ![self].pc = "te_retcode"]
                /\ UNCHANGED procs
    /\ UNCHANGED <<thread_hash, next_thread_id, schedVars, panic, deathVars,
                   proc_hash, next_proc_id, pgid_hash, sid_hash, last_sends>>
    /\ UNCHANGED lockVars

\* thread_kill_thread_nowait for every thread on the list
RECURSIVE KillLoop(_, _)
KillLoop(ps, thread_list) ==
    IF thread_list = <<>> THEN ps
    ELSE LET id == ps.sched.threads[Head(thread_list)].id IN
         KillLoop([ps EXCEPT
                      !.sends = Append(@, <<id, "SIGKILLTHR">>),
                      !.sched = send_signal_etc(ps.sched, thread_hash, id, "SIGKILLTHR")],
                  Tail(thread_list))

\* there are other threads still in this process: signal kill on each of them
te_kill(c) ==
    /\ AtPc(c, "te_kill")
    /\ LET self == current[c]
           p == threads[self].arg
       IN  IF procs[p].num_threads > 0
           THEN LET ps == KillLoop(ProcState, procs[p].thread_list) IN
                ProcCommit([ps EXCEPT !.sched.threads[self].pc = "te_wait"])
           ELSE /\ threads' = [threads EXCEPT ![self].pc = "te_teardown"]
                /\ UNCHANGED <<schedVars, panic, procs, proc_hash, pgid_hash,
                               sid_hash, last_sends>>
    /\ UNCHANGED <<thread_hash, next_thread_id, deathVars, next_proc_id>>
    /\ UNCHANGED lockVars

\* the wait for the siblings left after a single look at the thread count
te_wait_once(c) ==
    /\ AtPc(c, "te_wait")
    /\ threads' = [threads EXCEPT ![current[c]].pc = "te_teardown"]
    /\ UNCHANGED <<thread_hash, next_thread_id, schedVars, panic, deathVars,
                   procVars, last_sends>>
    /\ UNCHANGED lockVars

\* Now wait for all of the threads to die: thread_snooze(10000) in a loop
te_wait(c) ==
    /\ AtPc(c, "te_wait")
    /\ LET self == current[c]
           p == threads[self].arg
       IN  IF procs[p].num_threads > 0
           THEN \E res \in ReschedOutcomes(BlockCurrent(SchedState, c), c) :
                    SchedCommit(res)
           ELSE /\ threads' = [threads EXCEPT ![self].pc = "te_teardown"]
                /\ UNCHANGED <<schedVars, panic>>
    /\ UNCHANGED <<thread_hash, next_thread_id, deathVars, procVars, last_sends>>
    /\ UNCHANGED lockVars

\* orphan check, removal from the process index, reparenting, removal from
\* group, session and parent; then the process record is freed
te_teardown(c) ==
    /\ AtPc(c, "te_teardown")
    /\ \E ub \in UBOutcomes :
         LET self == current[c]
             p == threads[self].arg
             parent_pid == procs[p].parent
             ps == ExitTeardown(ProcState, p, ub)
         IN  IF ps.fault # "" THEN ProcCommit(ps)
             ELSE ProcCommit([ps EXCEPT !.procs[p].state = "FREED",
                                        !.sched.threads[self].arg = parent_pid,
                                        !.sched.threads[self].pc = "te_sigchld"])
    /\ UNCHANGED <<thread_hash, next_thread_id, deathVars, next_proc_id>>
    /\ UNCHANGED lockVars

\* send_proc_signal_etc(parent_pid, SIGCHLD, SIG_FLAG_NO_RESCHED)
te_sigchld(c) ==
    /\ AtPc(c, "te_sigchld")
    /\ LET self == current[c]
           parent_pid == threads[self].arg
           p == proc_get_proc_struct_locked(proc_hash, parent_pid)
       IN  /\ last_sends' = IF p # NULL /\ procs[p].main_thread # NULL
                            THEN <<<<threads[procs[p].main_thread].id, "SIGCHLD">>>>
                            ELSE <<>>
           /\ threads' = [threads EXCEPT ![self].arg = 0, ![self].pc = "te_retcode"]
    /\ UNCHANGED <<thread_hash, next_thread_id, schedVars, panic, deathVars, procVars>>
    /\ UNCHANGED lockVars

\* delete the sem that others will use to wait on us and get the retcode
te_retcode(c) ==
    /\ AtPc(c, "te_retcode")
    /\ LET self == current[c]
           st0  == [SchedState EXCEPT !.threads[self].return_code_sem = FALSE,
                                      !.threads[self].pc = "te_gate"]
       IN  SchedCommit(sem_delete_etc(st0, threads[self].id, threads[self].retcode))
    /\ UNCHANGED <<thread_hash, next_thread_id, panic, deathVars, procVars, last_sends>>
    /\ UNCHANGED lockVars

\* get_death_stack entering the search without the semaphore
death_stack_gate_open(sem) == TRUE

\* sem_acquire(death_stack_sem, 1) lets the caller through without blocking
death_stack_gate(sem) == sem.count > 0

te_gate(c) ==
    /\ AtPc(c, "te_gate")
    /\ LET self == current[c] IN
       IF death_stack_gate(death_stack_sem)
       THEN /\ death_stack_sem' = [death_stack_sem EXCEPT !.count = @ - 1]
            /\ threads' = [threads EXCEPT ![self].pc = "te_bitmap"]
            /\ UNCHANGED <<schedVars, panic>>
       ELSE /\ death_stack_sem' = [death_stack_sem EXCEPT !.waiters = Append(@, self)]
            /\ \E res \in ReschedOutcomes(
                             BlockCurrent([SchedState EXCEPT
                                              !.threads[self].pc = "te_bitmap"], c), c) :
                   SchedCommit(res)
    /\ UNCHANGED <<thread_hash, next_thread_id, death_stack_bitmap, procVars, last_sends>>
    /\ UNCHANGED lockVars

\* get_death_stack: find a free spot under the thread lock
te_bitmap(c) ==
    /\ AtPc(c, "te_bitmap")
    /\ LET self == current[c]
           i == LowestClearBit(death_stack_bitmap)
       IN  IF i = -1
           THEN /\ panic' = "get_death_stack: couldn't find free stack!"
                /\ UNCHANGED <<threads, death_stack_bitmap>>
           ELSE /\ death_stack_bitmap' = SetBit(death_stack_bitmap, i)
                /\ threads' = [threads EXCEPT ![self].arg = i, ![self].pc = "te_exit2"]
                /\ UNCHANGED panic
    /\ UNCHANGED <<thread_hash, next_thread_id, schedVars, death_stack_sem,
                   procVars, last_sends>>
    /\ UNCHANGED lockVars

\* thread_exit2: remove this thread from the kernel process
te_exit2(c) ==
    /\ AtPc(c, "te_exit2")
    /\ procs' = remove_thread_from_proc(procs, KERNEL_PROC, current[c])
    /\ threads' = [threads EXCEPT ![current[c]].pc = "te_unhash"]
    /\ UNCHANGED <<thread_hash, next_thread_id, schedVars, panic, deathVars,
                   proc_hash, next_proc_id, pgid_hash, sid_hash, last_sends>>
    /\ UNCHANGED lockVars

\* thread_exit2 putting its record on the dead queue while it still runs on it
te_unhash_files_dead(c) ==
    /\ AtPc(c, "te_unhash")
    /\ thread_hash' = thread_hash \ {current[c]}
    /\ threads' = [threads EXCEPT ![current[c]].pc = "te_put"]
    /\ dead_q' = thread_enqueue(dead_q, current[c])
    /\ UNCHANGED <<next_thread_id, run_q, current, last_pick, rt_ready, panic,
                   deathVars, procVars, last_sends>>
    /\ UNCHANGED lockVars

\* thread_exit2: remove this thread from the thread index
te_unhash(c) ==
    /\ AtPc(c, "te_unhash")
    /\ thread_hash' = thread_hash \ {current[c]}
    /\ threads' = [threads EXCEPT ![current[c]].pc = "te_put"]
    /\ UNCHANGED <<next_thread_id, schedVars, panic, deathVars, procVars, last_sends>>
    /\ UNCHANGED lockVars

\* sem_release_etc(death_stack_sem, 1, SEM_FLAG_NO_RESCHED) on the pair
\* <<semaphore, scheduler state>>
sem_release_etc(sem, st) ==
    IF sem.waiters # <<>>
    THEN [sem |-> [sem EXCEPT !.waiters = Tail(@)],
          sched |-> WakeThread(st, Head(sem.waiters))]
    ELSE [sem |-> [sem EXCEPT !.count = @ + 1], sched |-> st]

\* put_death_stack_and_reschedule leaving the bit set
put_death_stack_keeps_bit(bitmap, index) == bitmap

\* the bitmap put_death_stack_and_reschedule leaves
put_death_stack(bitmap, index) == ClearBit(bitmap, index)

\* put_death_stack_and_reschedule with the thread lock released between the
\* bitmap update and the dispatcher
te_put_two_sections(c) ==
    /\ AtPc(c, "te_put")
    /\ LET self == current[c]
           index == threads[self].arg
       IN  IF threads[self].next_state # "FREE_ON_RESCHED"
           THEN LET st0 == [SchedState EXCEPT
                                !.threads[self].next_state = "FREE_ON_RESCHED"]
                    rel == sem_release_etc(death_stack_sem, st0)
                IN  /\ death_stack_bitmap' = put_death_stack(death_stack_bitmap, index)
                    /\ death_stack_sem' = rel.sem
                    /\ SchedCommit(rel.sched)
           ELSE /\ \E res \in ReschedOutcomes(
                                [SchedState EXCEPT !.threads[self].arg = 0,
                                                   !.threads[self].pc = "dead"], c) :
                       SchedCommit(res)
                /\ UNCHANGED deathVars
    /\ UNCHANGED <<thread_hash, next_thread_id, procVars, last_sends>>
    /\ UNCHANGED lockVars

\* thread_exit2: next_state = FREE_ON_RESCHED, put_death_stack_and_reschedule
te_put(c) ==
    /\ AtPc(c, "te_put")
    /\ LET self == current[c]
           index == threads[self].arg
       IN  IF index >= num_death_stacks \/ ~BitSet(death_stack_bitmap, index)
           THEN /\ panic' = "put_death_stack: passed invalid stack index"
                /\ UNCHANGED <<threads, schedVars, deathVars>>
           ELSE LET st0 == [SchedState EXCEPT
                                !.threads[self].next_state = "FREE_ON_RESCHED",
                                !.threads[self].arg = 0,
                                !.threads[self].pc = "dead"]
                    rel == sem_release_etc(death_stack_sem, st0)
                IN  /\ death_stack_bitmap' = put_death_stack(death_stack_bitmap, index)
                    /\ death_stack_sem' = rel.sem
                    /\ \E res \in ReschedOutcomes(rel.sched, c) : SchedCommit(res)
    /\ UNCHANGED <<thread_hash, next_thread_id, procVars, last_sends>>
    /\ UNCHANGED lockVars

-----------------------------------------------------------------------------
(* thread_atkernel_exit: handle_signals, and the reschedule it asks for *)

thread_atkernel_exit(c) ==
    /\ AtPc(c, "run")
    /\ LET self == current[c] IN
       /\ threads[self].proc # KERNEL_PROC
       /\ threads[self].sig_pending # {}
       /\ IF "SIGKILLTHR" \in threads[self].sig_pending
          THEN /\ threads' = [threads EXCEPT
                                  ![self].sig_pending = {},
                                  ![self].priority = ClampSetPriority(THREAD_HIGH_PRIORITY),
                                  ![self].ret = 0,
                                  ![self].pc = "te_detach"]
               /\ UNCHANGED <<schedVars, panic>>
          ELSE \E res \in ReschedOutcomes(
                              [SchedState EXCEPT
                                   !.threads[self].sig_pending = {},
                                   !.threads[self].next_state = "SUSPENDED"], c) :
                   SchedCommit(res)
    /\ UNCHANGED <<thread_hash, next_thread_id, deathVars, procVars, last_sends>>
    /\ UNCHANGED lockVars

-----------------------------------------------------------------------------
(* proc_create_proc *)

ProcFlags == {{}, {"NEW_PGROUP"}, {"NEW_SESSION"}, {"NEW_SESSION", "NEW_PGROUP"}}

\* create_proc_struct, and the nodes preallocated for the flags
proc_create_proc(c, flags) ==
    /\ AtPc(c, "run")
    /\ ~IsIdle(current[c])
    /\ next_proc_id <= MaxProcId
    /\ procs' = [procs EXCEPT ![next_proc_id] = create_proc_struct]
    /\ next_proc_id' = next_proc_id + 1
    /\ threads' = [threads EXCEPT ![current[c]].arg = next_proc_id,
                                  ![current[c]].fl = flags,
                                  ![current[c]].ret = 0,
                                  ![current[c]].pc = "pc_publish"]
    /\ UNCHANGED <<thread_hash, next_thread_id, schedVars, panic, deathVars,
                   proc_hash, pgid_hash, sid_hash, last_sends>>
    /\ UNCHANGED lockVars

\* the flags taken as they were passed
EffectiveFlagsAsPassed(flags) == flags

\* "creating your own session implies your own pgroup"
EffectiveFlags(flags) ==
    IF "NEW_SESSION" \in flags THEN flags \cup {"NEW_PGROUP"} ELSE flags

\* the process-lock section that publishes the new record
PublishProc(ps, curr_proc, p, passed) ==
    LET flags == EffectiveFlags(passed)
        s1 == insert_proc_into_parent([ps EXCEPT !.proc_hash = @ \cup {p}], curr_proc, p)
        s2 == IF "NEW_SESSION" \in flags
              THEN add_proc_to_session([s1 EXCEPT !.sid_hash = InsertNode(@, p)], p, p)
              ELSE add_proc_to_session([s1 EXCEPT !.procs[p].sid = s1.procs[curr_proc].sid],
                                       p, s1.procs[curr_proc].sid)
    IN  IF "NEW_PGROUP" \in flags
        THEN add_proc_to_pgroup([s2 EXCEPT !.pgid_hash = InsertNode(@, p)], p, p)
        ELSE add_proc_to_pgroup([s2 EXCEPT !.procs[p].pgid = s2.procs[curr_proc].pgid],
                                p, s2.procs[curr_proc].pgid)

pc_publish(c) ==
    /\ AtPc(c, "pc_publish")
    /\ LET self == current[c]
           ps == PublishProc(ProcState, threads[self].proc, threads[self].arg,
                             threads[self].fl)
       IN  ProcCommit([ps EXCEPT !.sched.threads[self].pc = "pc_setup"])
    /\ UNCHANGED <<thread_hash, next_thread_id, deathVars, next_proc_id>>
    /\ UNCHANGED lockVars

\* argument copy, I/O context, address space: any of them may fail; then the
\* kernel thread under the context of the new process
pc_setup(c) ==
    /\ AtPc(c, "pc_setup")
    /\ \/ /\ threads' = [threads EXCEPT ![current[c]].pc = "pc_err1"]
          /\ UNCHANGED <<next_thread_id, dead_q>>
       \/ CreateThreadBegin(c, threads[current[c]].arg, "proc_create_proc")
    /\ UNCHANGED <<thread_hash, run_q, current, last_pick, rt_ready, panic,
                   deathVars, procVars, last_sends>>
    /\ UNCHANGED lockVars

\* thread_resume_thread(tid); return pid
pc_resume(c) ==
    /\ AtPc(c, "pc_resume")
    /\ LET self == current[c]
           res == send_signal_etc(SchedState, thread_hash, threads[self].ret, "SIGCONT")
       IN  SchedCommit([res EXCEPT !.threads[self].ret = 0,
                                   !.threads[self].arg = 0,
                                   !.threads[self].fl = {},
                                   !.threads[self].pc = "run"])
    /\ UNCHANGED <<thread_hash, next_thread_id, deathVars, procVars, last_sends>>
    /\ UNCHANGED lockVars

\* err1: remove the proc structure from the proc hash table and delete the
\* proc structure
pc_err1(c) ==
    /\ AtPc(c, "pc_err1")
    /\ LET self == current[c]
           p == threads[self].arg
       IN  /\ proc_hash' = proc_hash \ {p}
           /\ procs' = [procs EXCEPT ![p].state = "FREED"]
           /\ threads' = [threads EXCEPT ![self].arg = 0, ![self].fl = {},
                                         ![self].ret = 0, ![self].pc = "run"]
    /\ UNCHANGED <<thread_hash, next_thread_id, schedVars, panic, deathVars,
                   next_proc_id, pgid_hash, sid_hash, last_sends>>
    /\ UNCHANGED lockVars

\* proc_create_proc2, the entry of the new process's first thread: the
\* program is loaded, p->state = PROC_STATE_NORMAL, enter user space
proc_create_proc2(c) ==
    /\ AtPc(c, "launch")
    /\ procs' = [procs EXCEPT ![threads[current[c]].proc].state = "NORMAL"]
    /\ threads' = [threads EXCEPT ![current[c]].pc = "run"]
    /\ UNCHANGED <<thread_hash, next_thread_id, schedVars, panic, deathVars,
                   proc_hash, next_proc_id, pgid_hash, sid_hash, last_sends>>
    /\ UNCHANGED lockVars

-----------------------------------------------------------------------------
(* Process groups and sessions: setpgid, getpgid, setsid *)

\* pid == 0 names the caller's process
NormPid(self, pid) == IF pid = 0 THEN threads[self].proc ELSE pid

\* pgid == 0 names the group of the (normalised) pid
NormPgid(self, pid, pgid) == IF pgid = 0 THEN NormPid(self, pid) ELSE pgid

\* setpgid: the argument check, before the process lock is taken
setpgid(c, pid, pgid) ==
    /\ AtPc(c, "run")
    /\ ~IsIdle(current[c])
    /\ threads' = IF pid < 0 \/ pgid < 0
                  THEN [threads EXCEPT ![current[c]].ret = ERR_INVALID_ARGS]
                  ELSE [threads EXCEPT ![current[c]].arg = pid,
                                       ![current[c]].arg2 = pgid,
                                       ![current[c]].ret = 0,
                                       ![current[c]].pc = "sp_lock"]
    /\ UNCHANGED <<thread_hash, next_thread_id, schedVars, panic, deathVars,
                   procVars, last_sends>>
    /\ UNCHANGED lockVars

\* setpgid moving p without unlinking it from its current group
move_to_pgroup_keeps_old(ps, p, pgid) == add_proc_to_pgroup(ps, p, pgid)

\* setpgid: "remove the process from it's current group", "add it to the new
\* group"
move_to_pgroup(ps, p, pgid) ==
    add_proc_to_pgroup(remove_proc_from_pgroup(ps, p, ps.procs[p].pgid), p, pgid)

\* setpgid: the first process-lock section
sp_lock(c) ==
    /\ AtPc(c, "sp_lock")
    /\ LET self == current[c]
           pid  == NormPid(self, threads[self].arg)
           pgid == NormPgid(self, threads[self].arg, threads[self].arg2)
           p    == proc_get_proc_struct_locked(proc_hash, pid)
           done(ps, err) == ProcCommit([ps EXCEPT !.sched.threads[self].ret = err,
                                                  !.sched.threads[self].arg = 0,
                                                  !.sched.threads[self].arg2 = 0,
                                                  !.sched.threads[self].pc = "run"])
       IN  IF p = NULL THEN done([ProcState EXCEPT !.sends = last_sends], ERR_NOT_FOUND)
           ELSE IF procs[p].pgid = pgid
                THEN done([ProcState EXCEPT !.sends = last_sends], NO_ERROR)
           ELSE IF pgid \notin DOMAIN pgid_hash
                THEN ProcCommit([ProcState EXCEPT !.sends = last_sends,
                                                  !.sched.threads[self].pc = "sp_alloc"])
           ELSE done(move_to_pgroup([ProcState EXCEPT !.sends = last_sends], p, pgid),
                     NO_ERROR)
    /\ UNCHANGED <<thread_hash, next_thread_id, deathVars, next_proc_id>>
    /\ UNCHANGED lockVars

\* setpgid: create_pgroup_struct with the process lock released; kmalloc may fail
sp_alloc(c) ==
    /\ AtPc(c, "sp_alloc")
    /\ \/ threads' = [threads EXCEPT ![current[c]].ret = ERR_NO_MEMORY,
                                     ![current[c]].arg = 0,
                                     ![current[c]].arg2 = 0,
                                     ![current[c]].pc = "run"]
       \/ threads' = [threads EXCEPT ![current[c]].pc = "sp_insert"]
    /\ UNCHANGED <<thread_hash, next_thread_id, schedVars, panic, deathVars,
                   procVars, last_sends>>
    /\ UNCHANGED lockVars

\* setpgid: the second process-lock section; p is the pointer read in the first
sp_insert(c) ==
    /\ AtPc(c, "sp_insert")
    /\ \E ub \in UBOutcomes :
         LET self == current[c]
             p    == NormPid(self, threads[self].arg)
             pgid == NormPgid(self, threads[self].arg, threads[self].arg2)
             s0   == TouchProc([ProcState EXCEPT !.sends = last_sends], p, ub)
             s1   == [s0 EXCEPT !.pgid_hash = PublishNode(@, pgid)]
         IN  IF s0.fault # "" THEN ProcCommit(s0)
             ELSE ProcCommit([move_to_pgroup(s1, p, pgid) EXCEPT
                                 !.sched.threads[self].ret = NO_ERROR,
                                 !.sched.threads[self].arg = 0,
                                 !.sched.threads[self].arg2 = 0,
                                 !.sched.threads[self].pc = "run"])
    /\ UNCHANGED <<thread_hash, next_thread_id, deathVars, next_proc_id>>
    /\ UNCHANGED lockVars

\* what getpgid returns to a caller in process caller_proc
getpgid_retval(P, H, caller_proc, pid) ==
    IF pid < 0 THEN ERR_INVALID_ARGS
    ELSE LET p == proc_get_proc_struct_locked(H, IF pid = 0 THEN caller_proc ELSE pid)
         IN  IF p = NULL THEN ERR_NOT_FOUND ELSE P[p].pgid

getpgid(c, pid) ==
    /\ AtPc(c, "run")
    /\ ~IsIdle(current[c])
    /\ threads' = [threads EXCEPT ![current[c]].ret =
                       getpgid_retval(procs, proc_hash, threads[current[c]].proc, pid)]
    /\ UNCHANGED <<thread_hash, next_thread_id, schedVars, panic, deathVars,
                   procVars, last_sends>>
    /\ UNCHANGED lockVars

\* setsid: "remove the process from it's current group", "add it to the new
\* group"
move_to_session(ps, p, sid) ==
    add_proc_to_session(remove_proc_from_session(ps, p, ps.procs[p].sid), p, sid)

\* setsid: pid = proc_get_current_proc_id(); sid = pid
setsid(c) ==
    /\ AtPc(c, "run")
    /\ ~IsIdle(current[c])
    /\ threads' = [threads EXCEPT ![current[c]].arg = threads[current[c]].proc,
                                  ![current[c]].ret = 0,
                                  ![current[c]].pc = "ss_lock"]
    /\ UNCHANGED <<thread_hash, next_thread_id, schedVars, panic, deathVars,
                   procVars, last_sends>>
    /\ UNCHANGED lockVars

\* setsid: the first process-lock section
ss_lock(c) ==
    /\ AtPc(c, "ss_lock")
    /\ LET self == current[c]
           sid  == threads[self].arg
           p    == proc_get_proc_struct_locked(proc_hash, sid)
           done(ps, err) == ProcCommit([ps EXCEPT !.sched.threads[self].ret = err,
                                                  !.sched.threads[self].arg = 0,
                                                  !.sched.threads[self].pc = "run"])
       IN  IF p = NULL THEN done([ProcState EXCEPT !.sends = last_sends], ERR_NOT_FOUND)
           ELSE IF procs[p].sid = sid
                THEN done([ProcState EXCEPT !.sends = last_sends], NO_ERROR)
           ELSE IF sid \notin DOMAIN sid_hash
                THEN ProcCommit([ProcState EXCEPT !.sends = last_sends,
                                                  !.sched.threads[self].pc = "ss_alloc"])
           ELSE done(move_to_session([ProcState EXCEPT !.sends = last_sends], p, sid),
                     NO_ERROR)
    /\ UNCHANGED <<thread_hash, next_thread_id, deathVars, next_proc_id>>
    /\ UNCHANGED lockVars

\* setsid: create_session_struct with the process lock released
ss_alloc(c) ==
    /\ AtPc(c, "ss_alloc")
    /\ \/ threads' = [threads EXCEPT ![current[c]].ret = ERR_NO_MEMORY,
                                     ![current[c]].arg = 0,
                                     ![current[c]].pc = "run"]
       \/ threads' = [threads EXCEPT ![current[c]].pc = "ss_insert"]
    /\ UNCHANGED <<thread_hash, next_thread_id, schedVars, panic, deathVars,
                   procVars, last_sends>>
    /\ UNCHANGED lockVars

\* setsid: the second process-lock section; return err
ss_insert(c) ==
    /\ AtPc(c, "ss_insert")
    /\ LET self == current[c]
           p    == threads[self].arg
           s1   == [ProcState EXCEPT !.sends = last_sends,
                                     !.sid_hash = PublishNode(@, p)]
       IN  ProcCommit([move_to_session(s1, p, p) EXCEPT
                          !.sched.threads[self].ret = NO_ERROR,
                          !.sched.threads[self].arg = 0,
                          !.sched.threads[self].pc = "run"])
    /\ UNCHANGED <<thread_hash, next_thread_id, deathVars, next_proc_id>>
    /\ UNCHANGED lockVars

-----------------------------------------------------------------------------
(* Waiting for a thread to exit *)

\* what the caller of thread_wait_on_thread returns: thread_kill_thread
\* returns the status of its send_signal_etc, which was not negative
WaitRetval(caller, rc) == IF caller = "thread_kill_thread" THEN NO_ERROR ELSE rc

\* the return value of send_signal_etc, which fails for an id that is not in
\* the thread index
send_signal_retval(T, H, id) ==
    IF thread_get_thread_struct_locked(T, H, id) = NULL
    THEN ERR_INVALID_HANDLE ELSE NO_ERROR

\* thread_wait_on_thread from its entry: send_signal_etc(id, SIGCONT, 0)
WaitOnThread(st, c, id, caller) ==
    LET self == st.current[c]
        rc   == send_signal_retval(st.threads, thread_hash, id)
        res  == send_signal_etc(st, thread_hash, id, "SIGCONT")
    IN  IF rc < NO_ERROR
        THEN [res EXCEPT !.threads[self].ret = WaitRetval(caller, rc),
                         !.threads[self].wait_retcode = 0 - 1]
        ELSE [res EXCEPT !.threads[self].arg = id,
                         !.threads[self].ret = 0,
                         !.threads[self].caller = caller,
                         !.threads[self].wait_retcode = 0 - 1,
                         !.threads[self].pc = "tw_lookup"]

thread_wait_on_thread(c, id) ==
    /\ AtPc(c, "run")
    /\ SchedCommit(WaitOnThread(SchedState, c, id, ""))
    /\ UNCHANGED <<thread_hash, next_thread_id, deathVars, procVars, last_sends>>
    /\ UNCHANGED lockVars

\* thread_kill_thread: send SIGKILLTHR, and wait for any thread but oneself
thread_kill_thread(c, id) ==
    /\ AtPc(c, "run")
    /\ LET self   == current[c]
           status == send_signal_retval(threads, thread_hash, id)
           res    == send_signal_etc(SchedState, thread_hash, id, "SIGKILLTHR")
       IN  IF status < NO_ERROR \/ id = threads[self].id
           THEN SchedCommit([res EXCEPT !.threads[self].ret = status])
           ELSE SchedCommit(WaitOnThread(res, c, id, "thread_kill_thread"))
    /\ UNCHANGED <<thread_hash, next_thread_id, deathVars, procVars, last_sends>>
    /\ UNCHANGED lockVars

\* the thread id read through p->main_thread->id: a NULL main_thread faults
\* or reads ub
MainThreadId(p, ub) ==
    IF procs[p].main_thread = NULL THEN ub ELSE threads[procs[p].main_thread].id

\* a lookup that only fills in the return value of the current thread
ReturnOnly(c, rc) ==
    /\ threads' = [threads EXCEPT ![current[c]].ret = rc]
    /\ UNCHANGED <<thread_hash, next_thread_id, schedVars, panic, deathVars,
                   procVars, last_sends>>

\* a NULL pointer was followed and the kernel stops
Fault(msg) ==
    /\ panic' = msg
    /\ UNCHANGED <<threads, thread_hash, next_thread_id, schedVars, deathVars,
                   procVars, last_sends>>

proc_kill_proc(c, id) ==
    /\ AtPc(c, "run")
    /\ LET p == proc_get_proc_struct_locked(proc_hash, id) IN
       IF p = NULL THEN ReturnOnly(c, ERR_INVALID_HANDLE) /\ UNCHANGED lockVars
       ELSE \E ub \in UBOutcomes :
                IF MainThreadId(p, ub) = -1 THEN Fault("main_thread is NULL")
                                                /\ UNCHANGED lockVars
                ELSE thread_kill_thread(c, MainThreadId(p, ub))

proc_get_main_thread(c, id) ==
    /\ AtPc(c, "run")
    /\ LET p == proc_get_proc_struct_locked(proc_hash, id) IN
       IF p = NULL THEN ReturnOnly(c, ERR_INVALID_HANDLE)
       ELSE \E ub \in UBOutcomes :
                IF MainThreadId(p, ub) = -1 THEN Fault("main_thread is NULL")
                ELSE ReturnOnly(c, MainThreadId(p, ub))
    /\ UNCHANGED lockVars

proc_wait_on_proc(c, id) ==
    /\ AtPc(c, "run")
    /\ LET p == proc_get_proc_struct_locked(proc_hash, id) IN
       IF p # NULL /\ procs[p].main_thread # NULL
       THEN thread_wait_on_thread(c, threads[procs[p].main_thread].id)
       ELSE ReturnOnly(c, ERR_INVALID_HANDLE) /\ UNCHANGED lockVars

\* thread_get_thread_info: the data is copied out to the caller;
\* info.owner_proc_id = t->proc->id follows t->proc whatever it holds
thread_get_thread_info(c, id) ==
    /\ AtPc(c, "run")
    /\ LET t == thread_get_thread_struct_locked(threads, thread_hash, id) IN
       IF t = NULL THEN ReturnOnly(c, ERR_INVALID_HANDLE)
       ELSE IF threads[t].proc # NULL THEN ReturnOnly(c, NO_ERROR)
       ELSE \E ub \in UBOutcomes :
                IF ub = -1 THEN Fault("thread_get_thread_info: t->proc is NULL")
                ELSE ReturnOnly(c, NO_ERROR)
    /\ UNCHANGED lockVars

\* proc_get_proc_info: the data is copied out to the caller
proc_get_proc_info(c, id) ==
    /\ AtPc(c, "run")
    /\ ReturnOnly(c, IF proc_get_proc_struct_locked(proc_hash, id) = NULL
                     THEN ERR_INVALID_HANDLE ELSE NO_ERROR)
    /\ UNCHANGED lockVars

\* thread_create_user_thread(name, pid, entry, args): a thread in process pid
thread_create_user_thread(c, pid) ==
    /\ AtPc(c, "run")
    /\ CreateThreadBegin(c, pid, "")
    /\ UNCHANGED <<thread_hash, run_q, current, last_pick, rt_ready, panic,
                   deathVars, procVars, last_sends>>
    /\ UNCHANGED lockVars

\* thread_wait_on_thread: read the target's return_code_sem under the thread lock
tw_lookup(c) ==
    /\ AtPc(c, "tw_lookup")
    /\ LET self == current[c]
           t    == thread_get_thread_struct_locked(threads, thread_hash, threads[self].arg)
           sem  == IF t = NULL THEN ERR_INVALID_HANDLE
                   ELSE IF threads[t].return_code_sem THEN threads[t].id ELSE 0 - 1
       IN  threads' = [threads EXCEPT ![self].sem_blocking = sem,
                                      ![self].pc = "tw_acquire"]
    /\ UNCHANGED <<thread_hash, next_thread_id, schedVars, panic, deathVars,
                   procVars, last_sends>>
    /\ UNCHANGED lockVars

\* thread_wait_on_thread: sem_acquire_etc(sem, 1, SEM_FLAG_INTERRUPTABLE, 0, retcode).
\* The count of a return_code_sem is 0, so the caller blocks on a live semaphore;
\* a handle that names no semaphore is refused.
tw_acquire(c) ==
    /\ AtPc(c, "tw_acquire")
    /\ LET self == current[c]
           sem  == threads[self].sem_blocking
       IN  IF sem > 0 /\ SemExists(threads, sem)
           THEN \E res \in ReschedOutcomes(
                              BlockCurrent([SchedState EXCEPT
                                               !.threads[self].pc = "tw_return"], c), c) :
                    SchedCommit(res)
           ELSE /\ threads' = [threads EXCEPT
                                   ![self].ret = WaitRetval(threads[self].caller,
                                                            ERR_INVALID_HANDLE),
                                   ![self].arg = 0,
                                   ![self].caller = "",
                                   ![self].sem_blocking = 0 - 1,
                                   ![self].pc = "run"]
                /\ UNCHANGED <<schedVars, panic>>
    /\ UNCHANGED <<thread_hash, next_thread_id, deathVars, procVars, last_sends>>
    /\ UNCHANGED lockVars

\* thread_wait_on_thread: "This thread died the way it should, dont ripple a
\* non-error up"
tw_return(c) ==
    /\ AtPc(c, "tw_return")
    /\ LET self == current[c] IN
       threads' = [threads EXCEPT
                       ![self].ret = WaitRetval(threads[self].caller,
                                         IF threads[self].ret = ERR_SEM_DELETED
                                         THEN NO_ERROR ELSE threads[self].ret),
                       ![self].arg = 0,
                       ![self].caller = "",
                       ![self].sem_blocking = 0 - 1,
                       ![self].pc = "run"]
    /\ UNCHANGED <<thread_hash, next_thread_id, schedVars, panic, deathVars,
                   procVars, last_sends>>
    /\ UNCHANGED lockVars

-----------------------------------------------------------------------------
(* The two global spinlocks.  A lock path is the sequence of GRAB_ and       *)
(* RELEASE_ operations one call performs on one CPU, in program order; a     *)
(* thread lock that is handed over by thread_resched is released by the      *)
(* incoming thread on the same CPU.                                          *)

GRAB_PROC_LOCK      == "GRAB_PROC_LOCK"
RELEASE_PROC_LOCK   == "RELEASE_PROC_LOCK"
GRAB_THREAD_LOCK    == "GRAB_THREAD_LOCK"
RELEASE_THREAD_LOCK == "RELEASE_THREAD_LOCK"

MaxFanOut == 2        \* members of a list that a fan-out walks

RECURSIVE Rep(_, _)
Rep(n, path) == IF n = 0 THEN <<>> ELSE path \o Rep(n - 1, path)

ProcSection   == <<GRAB_PROC_LOCK, RELEASE_PROC_LOCK>>
ThreadSection == <<GRAB_THREAD_LOCK, RELEASE_THREAD_LOCK>>

\* send_signal_etc looks the thread up and delivers under the thread lock
send_signal_etc_locks == ThreadSection

\* send_proc_signal_etc resolves the process id to its main thread through
\* proc_get_main_thread, then sends to that thread
proc_get_main_thread_locks == ProcSection
send_proc_signal_etc_locks == proc_get_main_thread_locks \o send_signal_etc_locks

create_thread_struct_locks == ThreadSection

\* _create_thread with both sections nested the wrong way round
create_thread_nested_locks ==
    { create_thread_struct_locks
        \o <<GRAB_THREAD_LOCK, GRAB_PROC_LOCK, RELEASE_PROC_LOCK, RELEASE_THREAD_LOCK>> }

\* _create_thread: hash insert, process check, and the undo when it aborts
create_thread_locks ==
    { create_thread_struct_locks \o ThreadSection \o ProcSection,
      create_thread_struct_locks \o ThreadSection \o ProcSection \o ThreadSection }

thread_wait_on_thread_locks == send_signal_etc_locks \o ThreadSection

proc_wait_on_proc_locks == { ProcSection, ProcSection \o thread_wait_on_thread_locks }

thread_kill_thread_locks ==
    { send_signal_etc_locks, send_signal_etc_locks \o thread_wait_on_thread_locks }

proc_kill_proc_locks ==
    { ProcSection } \cup { ProcSection \o k : k \in thread_kill_thread_locks }

send_pgrp_signal_etc_locked_locks(n) == Rep(n, send_signal_etc_locks)

send_pgrp_signal_etc_locks ==
    { <<GRAB_PROC_LOCK>> \o send_pgrp_signal_etc_locked_locks(n) \o <<RELEASE_PROC_LOCK>>
        : n \in 0..MaxFanOut }

send_session_signal_etc_locks ==
    { <<GRAB_PROC_LOCK>> \o Rep(n, send_proc_signal_etc_locks) \o <<RELEASE_PROC_LOCK>>
        : n \in 0..MaxFanOut }

\* setpgid and setsid: one section, or two when the node has to be allocated
setpgid_locks == { ProcSection, ProcSection \o ProcSection }
setsid_locks  == { ProcSection, ProcSection \o ProcSection }

\* proc_create_proc: publish, main thread creation and resume, or the unwind
proc_create_proc_locks ==
    { ProcSection \o ct \o send_signal_etc_locks : ct \in create_thread_locks }
    \cup { ProcSection \o ct : ct \in create_thread_locks }
    \cup { ProcSection \o ProcSection }
    \cup { ProcSection \o ct \o ProcSection : ct \in create_thread_locks }

get_death_stack_locks == ThreadSection
thread_exit2_locks    == ProcSection \o ThreadSection
put_death_stack_and_reschedule_locks == ThreadSection

\* thread_exit of a thread that is not its process's main thread, and of a
\* main thread with n siblings to kill and m signals to orphaned groups
thread_exit_locks ==
    LET tail == send_proc_signal_etc_locks \o get_death_stack_locks
                    \o thread_exit2_locks \o put_death_stack_and_reschedule_locks
    IN  { tail, ProcSection \o tail }
        \cup { ProcSection
                 \o (IF n = 0 THEN <<>>
                     ELSE <<GRAB_PROC_LOCK>> \o Rep(n, send_signal_etc_locks)
                              \o <<RELEASE_PROC_LOCK>>)
                 \o <<GRAB_PROC_LOCK>> \o send_pgrp_signal_etc_locked_locks(m)
                 \o <<RELEASE_PROC_LOCK>> \o tail
               : n \in 0..1, m \in 0..MaxFanOut }

\* calls that consist of a single section
SingleSectionLocks ==
    { ThreadSection,     \* thread_set_priority, thread_get_thread_info, thread_yield,
                         \* thread_atkernel_entry, thread_atkernel_exit, thread_atinterrupt_exit
      ProcSection }      \* thread_get_next_thread_info, proc_get_proc_info,
                         \* proc_get_next_proc_info, proc_get_main_thread, getpgid

LockPaths ==
    SingleSectionLocks \cup create_thread_locks \cup { thread_wait_on_thread_locks }
    \cup proc_wait_on_proc_locks \cup thread_kill_thread_locks \cup proc_kill_proc_locks
    \cup send_pgrp_signal_etc_locks \cup send_session_signal_etc_locks
    \cup setpgid_locks \cup setsid_locks \cup proc_create_proc_locks \cup thread_exit_locks

NextLockOp(c) == IF lock_path[c] = <<>> THEN "" ELSE Head(lock_path[c])

\* a CPU enters one of the calls
lock_call(c) ==
    /\ lock_path[c] = <<>>
    /\ \E path \in LockPaths : lock_path' = [lock_path EXCEPT ![c] = path]
    /\ UNCHANGED <<proc_spinlock, thread_spinlock>>
    /\ UNCHANGED kernelVars

\* acquire_spinlock: spins until the lock is free, whoever holds it
acquire_spinlock(c) ==
    /\ \/ /\ NextLockOp(c) = GRAB_PROC_LOCK
          /\ proc_spinlock = 0
          /\ proc_spinlock' = c
          /\ UNCHANGED thread_spinlock
       \/ /\ NextLockOp(c) = GRAB_THREAD_LOCK
          /\ thread_spinlock = 0
          /\ thread_spinlock' = c
          /\ UNCHANGED proc_spinlock
    /\ lock_path' = [lock_path EXCEPT ![c] = Tail(@)]
    /\ UNCHANGED kernelVars

release_spinlock(c) ==
    /\ \/ /\ NextLockOp(c) = RELEASE_PROC_LOCK
          /\ proc_spinlock' = 0
          /\ UNCHANGED thread_spinlock
       \/ /\ NextLockOp(c) = RELEASE_THREAD_LOCK
          /\ thread_spinlock' = 0
          /\ UNCHANGED proc_spinlock
    /\ lock_path' = [lock_path EXCEPT ![c] = Tail(@)]
    /\ UNCHANGED kernelVars

-----------------------------------------------------------------------------
(* The scheduler on its own: kernel threads are created, resumed, change   *)
(* priority, yield and are preempted                                       *)

\* the id of the first thread created after thread_init
BootThread == NumCPUs + 1

SchedThreads == 3     \* thread ids in use in SpecSched

NextSched ==
    \E c \in CPUs :
        \/ thread_yield(c)
        \/ reschedule_event(c)
        \/ \E id \in 1..SchedThreads, p \in PrioInputs : thread_set_priority(c, id, p)
        \/ \E id \in 1..SchedThreads : thread_resume_thread(c, id)
        \/ next_thread_id <= SchedThreads /\ thread_create_thread(c)
        \/ ct_hash(c)
        \/ ct_proc(c)
        \/ ct_finish(c)

SpecSched == Init /\ [][NextSched]_vars

\* C1: with the thread lock free, every READY thread is linked exactly once on
\* run_q[t.priority], on no other priority level and not on the dead queue
ReadyOnOwnRunQueue ==
    \A r \in Recs :
        threads[r].state = "READY" =>
            /\ threads[r].priority \in Levels
            /\ SeqCount(RunQ(run_q, threads[r].priority), r) = 1
            /\ \A i \in DOMAIN run_q \ {threads[r].priority} : SeqCount(run_q[i], r) = 0
            /\ SeqCount(dead_q, r) = 0

\* C1 witness: a READY thread that thread_set_priority moved to level 10 next to
\* a READY thread whose priority thread_enqueue_run_q clamped
ReadyMovedAndClamped ==
    \E r, q \in Recs :
        /\ threads[r].state = "READY" /\ threads[r].priority = 10
        /\ threads[q].state = "READY" /\ threads[q].priority = THREAD_MAX_PRIORITY
        /\ q \in rt_ready
        /\ last_pick.thread # NULL

\* C3: whenever thread_resched chose while a thread that became ready with a
\* real-time priority was waiting, it chose one of those threads (so a thread
\* at THREAD_MAX_RT_PRIORITY that became ready while a priority-10 thread ran
\* is the next one dispatched)
RealTimeSelectedFirst ==
    last_pick.rt # {} => last_pick.thread \in last_pick.rt

\* C3, what the code does: a thread that became ready at THREAD_MAX_RT_PRIORITY
\* waits on run_q[THREAD_MAX_PRIORITY] while the dispatcher picks the
\* priority-10 thread that was running
RealTimePassedOver ==
    \E r \in last_pick.rt :
        /\ last_pick.thread # NULL
        /\ last_pick.thread \notin last_pick.rt
        /\ last_pick.level = 10
        /\ threads[r].state = "READY"
        /\ threads[r].priority = THREAD_MAX_PRIORITY

-----------------------------------------------------------------------------
(* Dispatch order within one level: three kernel threads at one priority   *)

FifoThreads == 4      \* thread ids in use in SpecFifo

NextFifo ==
    \E c \in CPUs :
        \/ thread_yield(c)
        \/ reschedule_event(c)
        \/ \E id \in 1..FifoThreads : thread_set_priority(c, id, 10)
        \/ \E id \in 1..FifoThreads : thread_resume_thread(c, id)
        \/ next_thread_id <= FifoThreads /\ thread_create_thread(c)
        \/ ct_hash(c)
        \/ ct_proc(c)
        \/ ct_finish(c)

SpecFifo == Init /\ [][NextFifo]_vars

Pos(q, x) == CHOOSE i \in 1..Len(q) : q[i] = x

\* what one step may do to the list of one level
FifoStep(q, q2) ==
    /\ \A a, b \in SeqSet(q) \cap SeqSet(q2) :
           Pos(q, a) < Pos(q, b) => Pos(q2, a) < Pos(q2, b)
    /\ \A a \in SeqSet(q) \cap SeqSet(q2), n \in SeqSet(q2) \ SeqSet(q) :
           Pos(q2, a) < Pos(q2, n)
    /\ \A a \in SeqSet(q) \ SeqSet(q2) :
           threads'[a].state = "RUNNING" => a = Head(q)

\* C4: within one level dispatch is FIFO: every step keeps the order of the
\* threads that stay on run_q[k], links arrivals behind them, and the thread
\* thread_resched takes off run_q[k] is its head; a thread that leaves by a
\* priority change is not dispatched and is exempt
FifoWithinLevel ==
    [][\A k \in DOMAIN run_q : FifoStep(run_q[k], RunQ(run_q', k))]_vars

\* C4 witness: of three threads enqueued in the order 2, 3, 4 at one regular
\* priority the first was dispatched and the others wait in that order
FifoFirstDispatched ==
    /\ current[1] = 2
    /\ last_pick.thread = 2
    /\ RunQ(run_q, THREAD_MEDIUM_PRIORITY) = <<3, 4>>

-----------------------------------------------------------------------------
(* Kernel threads that exit through the death stacks *)

DeathThreads == 3     \* thread ids in use in SpecDeath

NextDeath ==
    \E c \in CPUs :
        \/ thread_yield(c)
        \/ reschedule_event(c)
        \/ \E id \in 1..DeathThreads : thread_resume_thread(c, id)
        \/ next_thread_id <= DeathThreads /\ thread_create_thread(c)
        \/ ct_hash(c)
        \/ ct_proc(c)
        \/ ct_finish(c)
        \/ thread_exit(c, 0)
        \/ te_detach(c)
        \/ te_retcode(c)
        \/ te_gate(c)
        \/ te_bitmap(c)
        \/ te_exit2(c)
        \/ te_unhash(c)
        \/ te_put(c)

SpecDeath == Init /\ [][NextDeath]_vars

\* threads inside get_death_stack: sem_acquire called, bit not yet set
InGetDeathStack == {r \in Recs : threads[r].pc = "te_bitmap"}

DeathStackBitsInRange ==
    /\ PopCount(death_stack_bitmap) <= num_death_stacks
    /\ \A i \in BitmapBits : BitSet(death_stack_bitmap, i) => i < num_death_stacks

\* C5 as stated: at most num_death_stacks bits are set, all of them below
\* num_death_stacks, and the count of death_stack_sem is num_death_stacks
\* minus the number of set bits
DeathStackSemIsFreeStacks ==
    /\ DeathStackBitsInRange
    /\ death_stack_sem.count = num_death_stacks - PopCount(death_stack_bitmap)

\* C5 amended: at most num_death_stacks bits are set, all of them below
\* num_death_stacks; the count of death_stack_sem never exceeds
\* num_death_stacks minus the number of set bits, and equals it whenever no
\* thread is inside get_death_stack between its sem_acquire call and its
\* bitmap update
DeathStackSemCountsGate ==
    /\ DeathStackBitsInRange
    /\ death_stack_sem.count <= num_death_stacks - PopCount(death_stack_bitmap)
    /\ InGetDeathStack = {} =>
           death_stack_sem.count = num_death_stacks - PopCount(death_stack_bitmap)

\* C5 witness: a thread holds the death stack that an earlier thread held and
\* gave back, and nobody is inside get_death_stack
DeathStackTakenAgain ==
    /\ PopCount(death_stack_bitmap) = num_death_stacks
    /\ death_stack_sem.count = 0
    /\ InGetDeathStack = {}
    /\ dead_q # <<>>
    /\ \E r \in Recs : threads[r].pc \in {"te_exit2", "te_unhash", "te_put"}

-----------------------------------------------------------------------------
(* One user process: its threads are created and exit *)

LifeThreads == 5      \* thread ids in use in SpecLife
LifeProcs   == 2      \* process ids in use in SpecLife

InUserProc(c) == threads[current[c]].proc # KERNEL_PROC

NextLife ==
    \/ \E c \in CPUs :
        \/ thread_yield(c)
        \/ reschedule_event(c)
        \/ next_thread_id <= LifeThreads /\ InUserProc(c) /\ thread_create_thread(c)
        \/ InUserProc(c) /\ thread_resume_thread(c, LifeThreads - 1)
        \/ InUserProc(c) /\ thread_suspend_thread(c, LifeThreads - 1)
        \/ next_thread_id <= BootThread /\ thread_create_thread(c)
        \/ IsIdle(current[c]) /\ thread_resume_thread(c, BootThread)
        \/ ct_hash(c)
        \/ ct_proc(c)
        \/ ct_abort(c)
        \/ ct_finish(c)
        \/ next_proc_id <= LifeProcs /\ proc_create_proc(c, {})
        \/ pc_publish(c)
        \/ pc_setup(c)
        \/ pc_resume(c)
        \/ pc_err1(c)
        \/ proc_create_proc2(c)
        \/ thread_atkernel_exit(c)
        \/ InUserProc(c) /\ thread_exit(c, 0)
        \/ te_detach(c)
        \/ te_kill(c)
        \/ te_wait(c)
        \/ te_teardown(c)
        \/ te_sigchld(c)
        \/ te_retcode(c)
        \/ te_gate(c)
        \/ te_bitmap(c)
        \/ te_exit2(c)
        \/ te_unhash(c)
        \/ te_put(c)
    \/ \E r \in Recs : snooze_timeout(r)

SpecLife == Init /\ [][NextLife]_vars

Linked(P, r) == \E p \in ProcIds : r \in SeqSet(P[p].thread_list)

\* the process a creation in progress targets is dead
TargetDead(r) == procs[threads[r].arg].state \in {"DEATH", "FREED"}

CreateIntoDeadStep(r) ==
    /\ threads[r].pc = "ct_proc" /\ threads'[r].pc # "ct_proc" /\ TargetDead(r)
          => /\ threads'[r].pc = "ct_abort"
             /\ ~Linked(procs', threads[r].nt)
    /\ threads[r].pc = "ct_abort"
          => ~Linked(procs', threads[r].nt)
    /\ threads[r].pc = "ct_abort" /\ threads'[r].pc # "ct_abort"
          => /\ threads'[r].ret = ERR_TASK_PROC_DELETED
             /\ \A q \in thread_hash' : threads'[q].id # threads[threads[r].nt].id

\* C6: a creation whose process-lock section finds the target process marked
\* DEATH (or already torn down) takes the abort path: the new thread is never
\* linked into a thread list, the creation returns ERR_TASK_PROC_DELETED, and
\* on return no record in the thread index carries the new thread's id
CreateIntoDeadProcFails ==
    [][\A r \in Recs : CreateIntoDeadStep(r)]_vars

\* C6 witness: a creation begun by a thread of a process returned
\* ERR_TASK_PROC_DELETED after the main thread of that process marked it DEATH
CreateIntoDeadProcReturned ==
    \E r \in Recs, p \in ProcIds \ {KERNEL_PROC} :
        /\ threads[r].ret = ERR_TASK_PROC_DELETED
        /\ threads[r].pc = "run"
        /\ r \in SeqSet(procs[p].thread_list)
        /\ procs[p].state = "DEATH"

MainExited(P, p) ==
    P[p].main_thread # NULL /\ P[p].main_thread \notin SeqSet(P[p].thread_list)

MainThreadStep(p) ==
    /\ procs[p].main_thread # NULL => procs'[p].main_thread = procs[p].main_thread
    /\ procs[p].main_thread = NULL /\ procs'[p].main_thread # NULL
          => /\ procs[p].num_threads = 0
             /\ procs'[p].thread_list = <<procs'[p].main_thread>>
    /\ MainExited(procs, p)
          => /\ procs[p].state \in {"DEATH", "FREED"}
             /\ procs'[p].state \in {"DEATH", "FREED"}
             /\ SeqSet(procs'[p].thread_list) \subseteq SeqSet(procs[p].thread_list)

\* C7: main_thread is set by the insertion into the empty process and never
\* changes afterwards; once the main thread has left the thread list through
\* its exit step the process stays DEATH (until its record is freed) and no
\* thread is inserted into it
MainThreadDesignatedOnce ==
    [][\A p \in ProcIds : MainThreadStep(p)]_vars

\* C7 witness: the main thread of a user process has run its exit step while
\* another thread of the process is still on the thread list
MainExitedBeforeSibling ==
    \E p \in ProcIds \ {KERNEL_PROC} :
        /\ MainExited(procs, p)
        /\ procs[p].state = "DEATH"
        /\ procs[p].num_threads > 0

RunningOn(c) == {r \in Recs : threads[r].state = "RUNNING" /\ threads[r].cpu = c}

\* C2: for each CPU exactly one thread is RUNNING with its cpu field bound to
\* that CPU, it is the CPU's current thread, and no thread is RUNNING without
\* a CPU
OneRunningPerCPU ==
    /\ \A c \in CPUs : RunningOn(c) = {current[c]}
    /\ \A r \in Recs : threads[r].state = "RUNNING" => threads[r].cpu \in CPUs

\* C2 witness: thread_resched filed the snoozing main thread of a dying
\* process as WAITING and switched to another thread of that process
SwitchedAfterFiling ==
    /\ \E c \in CPUs : last_pick.cpu = c /\ current[c] = last_pick.thread /\ InUserProc(c)
    /\ \E r \in Recs : threads[r].state = "WAITING" /\ threads[r].pc = "te_wait"

-----------------------------------------------------------------------------
(* The process tree: processes with one thread each are created and exit   *)

TreeProcs == 4        \* process ids in use in SpecTree

\* the quantum ends inside process creation and before the teardown of an
\* exit; the later steps of an exit touch no process
TreePreemptPcs == {"pc_publish", "pc_setup", "ct_hash", "ct_finish", "pc_resume",
                   "pc_err1", "launch", "te_detach", "te_kill", "te_teardown"}

NextTree ==
    \E c \in CPUs :
        \/ thread_yield(c)
        \/ threads[current[c]].pc \in TreePreemptPcs /\ reschedule_event(c)
        \/ next_thread_id <= BootThread /\ thread_create_thread(c)
        \/ IsIdle(current[c]) /\ thread_resume_thread(c, BootThread)
        \/ ct_hash(c)
        \/ ct_proc(c)
        \/ ct_finish(c)
        \/ \E flags \in {{}, {"NEW_SESSION", "NEW_PGROUP"}} :
               next_proc_id <= KERNEL_PROC + 1 /\ proc_create_proc(c, flags)
        \/ \E flags \in {{}, {"NEW_PGROUP"}} :
               next_proc_id <= TreeProcs /\ InUserProc(c) /\ proc_create_proc(c, flags)
        \/ pc_publish(c)
        \/ pc_setup(c)
        \/ pc_resume(c)
        \/ pc_err1(c)
        \/ proc_create_proc2(c)
        \/ InUserProc(c) /\ thread_exit(c, 0)
        \/ te_detach(c)
        \/ te_kill(c)
        \/ te_teardown(c)
        \/ te_sigchld(c)
        \/ te_retcode(c)
        \/ te_gate(c)
        \/ te_bitmap(c)
        \/ te_exit2(c)
        \/ te_unhash(c)
        \/ te_put(c)

SpecTree == Init /\ [][NextTree]_vars

\* C8: with the process lock free, every process in the process index has a
\* parent that is a live process in the index, and it is its own parent
\* exactly if it is the kernel process
ParentIsLive ==
    panic = "" =>
        \A p \in proc_hash :
            /\ procs[p].parent # NULL
            /\ procs[p].parent \in proc_hash
            /\ procs[procs[p].parent].state \in {"BIRTH", "NORMAL", "DEATH"}
            /\ (procs[p].parent = p) <=> (p = KERNEL_PROC)

\* C8 witness: a process created by a user process has been reparented to the
\* kernel process by its parent's exit while it has a child of its own
ReparentedWithChild ==
    \E p, q \in proc_hash :
        /\ p > KERNEL_PROC + 1
        /\ procs[p].parent = KERNEL_PROC
        /\ procs[q].parent = p
        /\ panic = ""

\* the step in which the exit path takes process P out of the process index
ExitStep(P) == P \in proc_hash /\ P \notin proc_hash' /\ procs[P].state = "DEATH"

ChildrenOf(P) == {q \in proc_hash \ {P} : procs[q].parent = P}

ReparentStep(P) ==
    ExitStep(P) =>
        /\ \A q \in ChildrenOf(P) :
              /\ procs'[q].parent = procs[P].parent
              /\ SeqCount(procs'[procs[P].parent].children, q) = 1
              /\ q \in proc_hash'
              /\ \A r \in SeqSet(procs[q].thread_list) :
                     "SIGKILLTHR" \notin threads'[r].sig_pending
        /\ \A q \in proc_hash' : procs'[q].parent # P

\* C9: when process P exits, every child of P has P's former parent as its
\* parent afterwards and is on that parent's children list exactly once, stays
\* in the process index, has none of its threads killed, and no process is
\* left with parent = P
ChildrenReparentedOnExit ==
    [][\A P \in ProcIds : ReparentStep(P)]_vars

\* the parent process m has once P is gone
ParentAfter(P, m) == IF procs[m].parent = P THEN procs[P].parent ELSE procs[m].parent

RealMembers(g) ==
    IF g \in DOMAIN pgid_hash
    THEN {m \in SeqSet(pgid_hash[g]) : procs[m].state \in {"BIRTH", "NORMAL", "DEATH"}}
    ELSE {}

\* the orphan test on group g2 against P's group, with P gone
OrphanedBy(P, g2) ==
    \A m \in RealMembers(g2) :
        ParentAfter(P, m) = NULL \/ procs[ParentAfter(P, m)].pgid # procs[P].pgid

HupThenCont(sends, id) ==
    \E i, j \in 1..Len(sends) :
        i < j /\ sends[i] = <<id, "SIGHUP">> /\ sends[j] = <<id, "SIGCONT">>

OrphanSignalStep(P) ==
    ExitStep(P) =>
        \A C \in ChildrenOf(P) :
            (/\ procs[C].sid = procs[P].sid
             /\ procs[C].pgid # procs[P].pgid
             /\ OrphanedBy(P, procs[C].pgid))
            => \A m \in RealMembers(procs[C].pgid) :
                   procs[m].main_thread # NULL
                       => HupThenCont(last_sends', threads[procs[m].main_thread].id)

\* C10: when process P exits and leaves the group g2 of a child in the same
\* session orphaned, the main thread of every member of g2 is sent SIGHUP and
\* afterwards SIGCONT within the process-lock section of P's exit
OrphanedGroupSignalled ==
    [][\A P \in ProcIds : OrphanSignalStep(P)]_vars

\* what holds of the exits that run to the end of their process-lock section
ExitsThatComplete ==
    [][panic' = "" => \A P \in ProcIds : ReparentStep(P) /\ OrphanSignalStep(P)]_vars

-----------------------------------------------------------------------------
(* Lock discipline: CPUs run the calls' lock paths against each other *)

NextLock ==
    \E c \in LockCPUs :
        \/ lock_call(c)
        \/ acquire_spinlock(c)
        \/ release_spinlock(c)

SpecLock == Init /\ [][NextLock]_vars

\* C11: a CPU that holds the thread lock never goes on to acquire the process
\* lock, so the two locks only nest as process lock outside, thread lock
\* inside, and no two CPUs wait for each other on the pair
ProcLockNeverInsideThreadLock ==
    /\ \A c \in LockCPUs : thread_spinlock = c => NextLockOp(c) # GRAB_PROC_LOCK
    /\ ~ \E c1, c2 \in LockCPUs :
            /\ proc_spinlock = c1 /\ NextLockOp(c1) = GRAB_THREAD_LOCK
            /\ thread_spinlock = c2 /\ NextLockOp(c2) = GRAB_PROC_LOCK

\* C11 witness: one CPU holds the thread lock inside the process lock while
\* another CPU spins on the process lock
ThreadLockInsideProcLock ==
    \E c1, c2 \in LockCPUs :
        /\ c1 # c2
        /\ proc_spinlock = c1 /\ thread_spinlock = c1
        /\ NextLockOp(c2) = GRAB_PROC_LOCK

\* C12: a CPU that holds the process lock never goes on to acquire the process
\* lock again
ProcLockNeverReacquired ==
    \A c \in LockCPUs : proc_spinlock = c => NextLockOp(c) # GRAB_PROC_LOCK

-----------------------------------------------------------------------------
(* A kernel thread waits for the threads it created *)

WaitThreads == 4      \* thread ids in use in SpecWait
RetCodes    == {0, 7}

\* the creation of thread id has returned to its caller
Created(id) ==
    /\ id < next_thread_id
    /\ ~ \E r \in Recs : threads[r].id = id /\ threads[r].state = "BIRTH"

NextWait ==
    \E c \in CPUs :
        \/ thread_yield(c)
        \/ reschedule_event(c)
        \/ \E id \in 1..WaitThreads : thread_resume_thread(c, id)
        \/ next_thread_id <= WaitThreads /\ thread_create_thread(c)
        \/ ct_hash(c)
        \/ ct_proc(c)
        \/ ct_finish(c)
        \/ \E id \in (BootThread + 1)..WaitThreads :
               /\ threads[current[c]].id = BootThread
               /\ Created(id)
               /\ thread_wait_on_thread(c, id)
        \/ tw_lookup(c)
        \/ tw_acquire(c)
        \/ tw_return(c)
        \/ \E retcode \in RetCodes :
               threads[current[c]].id > BootThread /\ thread_exit(c, retcode)
        \/ te_detach(c)
        \/ te_retcode(c)
        \/ te_gate(c)
        \/ te_bitmap(c)
        \/ te_exit2(c)
        \/ te_unhash(c)
        \/ te_put(c)

SpecWait == Init /\ [][NextWait]_vars

\* thread w is inside thread_wait_on_thread
Waiting(w) == threads[w].pc \in {"tw_lookup", "tw_acquire", "tw_return"}

\* w's wait returns NO_ERROR and the exit code of the thread it was called for
WaitReturnStep(w) ==
    (Waiting(w) /\ threads'[w].pc = "run")
        => /\ threads'[w].ret = NO_ERROR
           /\ \E t \in Recs : /\ threads[t].id = threads[w].arg
                              /\ threads'[w].wait_retcode = threads[t].retcode

\* C13: a thread_wait_on_thread on a created thread that calls thread_exit(c)
\* returns NO_ERROR with *retcode = c
WaitReturnsExitCode == [][\A w \in Recs : WaitReturnStep(w)]_vars

\* what the code does: a waiter that blocked before the target deleted its
\* return_code_sem returns NO_ERROR and the target's exit code
WaitBlockedReturnsExitCode ==
    [][\A w \in Recs : threads[w].pc = "tw_return" => WaitReturnStep(w)]_vars

\* a wait has returned the exit code 7
WaitGotExitCode ==
    \E w \in Recs : /\ threads[w].id = BootThread /\ threads[w].pc = "run"
                     /\ threads[w].ret = NO_ERROR /\ threads[w].wait_retcode = 7

-----------------------------------------------------------------------------
(* Process groups and sessions: processes are created with every flag      *)
(* combination, move between groups, start sessions and exit               *)

PgrpProcs == 2        \* process ids in use in SpecPgrp

\* ids handed to setpgid and getpgid: invalid, the caller, known and unknown
PgrpIds == (0 - 1)..(PgrpProcs + 1)

\* no group is named by the id that a process created later will get
FreshGroupId(pgid) == pgid < next_proc_id \/ pgid > PgrpProcs

\* the quantum ends between the steps of process creation, of setpgid and of
\* setsid, and before the teardown of an exit
PgrpPreemptPcs == {"pc_publish", "pc_setup", "pc_resume", "launch", "sp_lock",
                   "sp_alloc", "sp_insert", "ss_lock", "ss_alloc", "ss_insert",
                   "te_teardown"}

NextPgrp ==
    \E c \in CPUs :
        \/ thread_yield(c)
        \/ threads[current[c]].pc \in PgrpPreemptPcs /\ reschedule_event(c)
        \/ next_thread_id <= BootThread /\ thread_create_thread(c)
        \/ IsIdle(current[c]) /\ thread_resume_thread(c, BootThread)
        \/ ct_hash(c)
        \/ ct_proc(c)
        \/ ct_finish(c)
        \/ \E flags \in ProcFlags :
               next_proc_id <= PgrpProcs /\ proc_create_proc(c, flags)
        \/ pc_publish(c)
        \/ pc_setup(c)
        \/ pc_resume(c)
        \/ pc_err1(c)
        \/ proc_create_proc2(c)
        \/ \E pid, pgid \in PgrpIds : FreshGroupId(pgid) /\ setpgid(c, pid, pgid)
        \/ sp_lock(c)
        \/ sp_alloc(c)
        \/ sp_insert(c)
        \/ \E pid \in PgrpIds : getpgid(c, pid)
        \/ setsid(c)
        \/ ss_lock(c)
        \/ ss_alloc(c)
        \/ ss_insert(c)
        \/ InUserProc(c) /\ thread_exit(c, 0)
        \/ te_detach(c)
        \/ te_kill(c)
        \/ te_teardown(c)
        \/ te_sigchld(c)
        \/ te_retcode(c)
        \/ te_gate(c)
        \/ te_bitmap(c)
        \/ te_exit2(c)
        \/ te_unhash(c)
        \/ te_put(c)

SpecPgrp == Init /\ [][NextPgrp]_vars


\* the groups on whose member list process p is linked, once per link
GroupsOf(h, p) == {g \in DOMAIN h : SeqCount(h[g], p) > 0}

\* thread w returns NO_ERROR from setpgid(pid, g) in this step, the target
\* process being live on return
SetpgidReturns(w) ==
    /\ threads[w].pc \in {"sp_lock", "sp_insert"}
    /\ threads'[w].pc = "run"
    /\ threads'[w].ret = NO_ERROR
    /\ (IF threads[w].arg = 0 THEN threads[w].proc ELSE threads[w].arg) \in proc_hash'

SetpgidStep(w) ==
    LET pid    == threads[w].arg
        g      == threads[w].arg2
        target == IF pid = 0 THEN threads[w].proc ELSE pid
        group  == IF g = 0 THEN target ELSE g
    IN  SetpgidReturns(w)
            => /\ getpgid_retval(procs', proc_hash', threads[w].proc, pid) = group
               /\ group \in DOMAIN pgid_hash'
               /\ GroupsOf(pgid_hash', target) = {group}
               /\ SeqCount(pgid_hash'[group], target) = 1

SetsidReturns(w) ==
    /\ threads[w].pc \in {"ss_lock", "ss_insert"}
    /\ threads'[w].pc = "run"
    /\ threads[w].proc \in proc_hash

SetsidStep(w) ==
    LET p == threads[w].proc
    IN  SetsidReturns(w)
            => /\ threads'[w].ret = p
               /\ IF procs[p].sid # p
                  THEN /\ procs'[p].sid = p
                       /\ GroupsOf(sid_hash', p) = {p}
                  ELSE UNCHANGED procVars

\* C15: a first setsid() moves the caller's process into the session named by
\* its own id and returns that sid; a setsid() by a process that already leads
\* its session changes no process state and returns the same sid
SetsidReturnsSid == [][\A w \in Recs : SetsidStep(w)]_vars

\* what the code does: setsid returns NO_ERROR; the session membership is as
\* C15 says
SetsidReturnsNoError ==
    [][\A w \in Recs :
          SetsidReturns(w)
              => /\ threads'[w].ret = NO_ERROR
                 /\ procs'[threads[w].proc].sid = threads[w].proc
                 /\ GroupsOf(sid_hash', threads[w].proc) = {threads[w].proc}
                 /\ (procs[threads[w].proc].sid = threads[w].proc
                        => UNCHANGED procVars)]_vars


\* C16: with the process lock free, all processes of the process index that
\* are linked on one process group's member list have the same sid
GroupInsideOneSession ==
    \A g \in DOMAIN pgid_hash :
        \A m1, m2 \in SeqSet(pgid_hash[g]) \cap proc_hash :
            procs[m1].sid = procs[m2].sid


\* thread w publishes the process it creates in this step
PublishStep(w) == threads[w].pc = "pc_publish" /\ threads'[w].pc = "pc_setup"

CreatedMembership(w) ==
    LET creator == threads[w].proc
        p       == threads[w].arg
        flags   == threads[w].fl
    IN  /\ procs'[p].sid = IF "NEW_SESSION" \in flags THEN p ELSE procs[creator].sid
        /\ procs'[p].pgid = IF flags # {} THEN p ELSE procs[creator].pgid
        /\ GroupsOf(pgid_hash', p) = {procs'[p].pgid}
        /\ SeqCount(pgid_hash'[procs'[p].pgid], p) = 1
        /\ GroupsOf(sid_hash', p) = {procs'[p].sid}
        /\ SeqCount(sid_hash'[procs'[p].sid], p) = 1

\* C17: proc_create_proc gives the new process its creator's sid unless
\* NEW_SESSION was passed, and then its own id as sid and pgid; with
\* NEW_PGROUP alone its own id as pgid and the creator's sid; with no flag the
\* creator's pgid; and links it once on the member lists of that group and
\* that session and on no other
CreatedInFlaggedGroupAndSession ==
    [][\A w \in Recs : PublishStep(w) => CreatedMembership(w)]_vars

\* C17 witness: NEW_SESSION alone was passed by a creator that had left the
\* group named by its own id, and the new process leads a session and a group
CreatedWithNewSessionOnly ==
    \E w \in Recs :
        /\ threads[w].pc = "pc_setup"
        /\ threads[w].fl = {"NEW_SESSION"}
        /\ procs[threads[w].proc].pgid # threads[w].proc
        /\ procs[threads[w].arg].sid = threads[w].arg
        /\ procs[threads[w].arg].pgid = threads[w].arg
        /\ threads[w].arg \in SeqSet(pgid_hash[threads[w].arg])


\* thread w leaves proc_create_proc through err1 in this step
UnwindStep(w) == threads[w].pc = "pc_err1" /\ threads'[w].pc = "run"

Unwound(w) ==
    LET p     == threads[w].arg
        flags == EffectiveFlags(threads[w].fl)
    IN  /\ p \notin proc_hash'
        /\ \A q \in ProcIds : SeqCount(procs'[q].children, p) = 0
        /\ GroupsOf(pgid_hash', p) = {}
        /\ GroupsOf(sid_hash', p) = {}
        /\ "NEW_PGROUP" \in flags => p \notin DOMAIN pgid_hash'
        /\ "NEW_SESSION" \in flags => p \notin DOMAIN sid_hash'

\* C18: when proc_create_proc fails after publishing the new record, on
\* return the record is in the process index, on its creator's children list,
\* on a group's and on a session's member list no more, and the pgroup and
\* session nodes made for it are gone from the tables
FailedCreateUnwound == [][\A w \in Recs : UnwindStep(w) => Unwound(w)]_vars


-----------------------------------------------------------------------------
(* The death stacks under a fair dispatcher *)

\* the steps of SpecDeath that a thread takes inside a kernel operation
KernelSteps(c) ==
    \/ ct_hash(c) \/ ct_proc(c) \/ ct_finish(c)
    \/ te_detach(c) \/ te_retcode(c)
    \/ te_gate(c) \/ te_bitmap(c) \/ te_exit2(c) \/ te_unhash(c) \/ te_put(c)

\* The quantum timer keeps ending the quantum of a thread that runs outside
\* the kernel, and a quantum is long enough for a thread that is dispatched
\* again and again inside a kernel operation to take its next step.
FairDispatch ==
    \A c \in CPUs : WF_vars(thread_yield(c)) /\ SF_vars(KernelSteps(c))

SpecDeathFair == SpecDeath /\ FairDispatch

GateBlocked(r) == r \in SeqSet(death_stack_sem.waiters)

HoldsDeathStack(r) == threads[r].pc \in {"te_exit2", "te_unhash", "te_put"}

\* the holders are at most num_death_stacks, each holds a set bit of its own
HoldersWithinPool ==
    /\ Cardinality({r \in Recs : HoldsDeathStack(r)}) <= num_death_stacks
    /\ \A r \in Recs : HoldsDeathStack(r) => BitSet(death_stack_bitmap, threads[r].arg)
    /\ \A r1, r2 \in Recs :
           HoldsDeathStack(r1) /\ HoldsDeathStack(r2) /\ r1 # r2
               => threads[r1].arg # threads[r2].arg
    /\ panic = ""

-----------------------------------------------------------------------------
(* Lookups by id: every operation that takes a thread id or a process id   *)
(* is called with ids that are and that are not in the index               *)

HandleIds == 3        \* thread ids in use in SpecHandle

\* the ids handed in: every id in use, and one that was never given out
HandleInputs == 1..(HandleIds + 1)

NextHandle ==
    \E c \in CPUs :
        \/ thread_yield(c)
        \/ threads[current[c]].pc \in {"sp_lock", "sp_alloc", "tw_lookup"}
               /\ reschedule_event(c)
        \/ next_thread_id <= HandleIds /\ thread_create_thread(c)
        \/ \E pid \in HandleInputs \ {KERNEL_PROC} :
               next_thread_id <= HandleIds /\ thread_create_user_thread(c, pid)
        \/ ct_hash(c)
        \/ ct_proc(c)
        \/ ct_abort(c)
        \/ ct_finish(c)
        \/ \E id \in HandleInputs :
               \/ thread_resume_thread(c, id)
               \/ thread_set_priority(c, id, THREAD_MEDIUM_PRIORITY)
               \/ thread_get_thread_info(c, id)
               \/ proc_get_proc_info(c, id)
               \/ proc_get_main_thread(c, id)
               \/ proc_kill_proc(c, id)
               \/ proc_wait_on_proc(c, id)
               \/ \E pgid \in {0, HandleIds + 1} : setpgid(c, id, pgid)
               \/ getpgid(c, id)
        \/ sp_lock(c)
        \/ sp_alloc(c)
        \/ sp_insert(c)
        \/ tw_lookup(c)
        \/ tw_acquire(c)
        \/ threads[current[c]].id > BootThread /\ thread_exit(c, 0)
        \/ te_detach(c)
        \/ te_retcode(c)
        \/ te_gate(c)
        \/ te_bitmap(c)
        \/ te_exit2(c)
        \/ te_unhash(c)
        \/ te_put(c)

SpecHandle == Init /\ [][NextHandle]_vars


UnknownThread(id) == thread_get_thread_struct_locked(threads, thread_hash, id) = NULL

UnknownProc(id) == proc_get_proc_struct_locked(proc_hash, id) = NULL

\* the operation of the thread on CPU c returns rc in this step and changes
\* nothing else
ReturnsUnchanged(c, rc) ==
    /\ threads'[current[c]].ret = rc
    /\ threads'[current[c]].pc = "run"
    /\ \A r \in Recs : [threads'[r] EXCEPT !.ret = 0, !.pc = "", !.arg = 0, !.arg2 = 0]
                         = [threads[r] EXCEPT !.ret = 0, !.pc = "", !.arg = 0, !.arg2 = 0]
    /\ UNCHANGED <<thread_hash, schedVars, deathVars, procVars, panic>>

\* a step of a lookup of a thread id that is not in the thread index
UnknownThreadLookup(c, id) ==
    /\ UnknownThread(id)
    /\ \/ thread_set_priority(c, id, THREAD_MEDIUM_PRIORITY)
       \/ thread_get_thread_info(c, id)

\* a step of a lookup of a process id that is not in the process index
UnknownProcLookup(c, id) ==
    /\ UnknownProc(id)
    /\ \/ proc_get_proc_info(c, id)
       \/ proc_kill_proc(c, id)
       \/ proc_get_main_thread(c, id)
       \/ proc_wait_on_proc(c, id)

\* a step in which getpgid, or the process-lock section of setpgid, is given a
\* pid that is not in the process index
UnknownPidGroupCall(c, id) ==
    /\ UnknownProc(id)
    /\ \/ getpgid(c, id)
       \/ sp_lock(c) /\ NormPid(current[c], threads[current[c]].arg) = id

\* the step in which the creation of a thread in a process that never
\* existed returns
UnknownProcCreate(c) ==
    /\ ct_abort(c)
    /\ threads[current[c]].arg >= next_proc_id

\* C20: an operation given a thread id or a process id that is not in the
\* index returns ERR_INVALID_HANDLE and changes no scheduler or process
\* state: thread_set_priority, thread_get_thread_info, proc_get_proc_info,
\* proc_kill_proc, proc_get_main_thread, proc_wait_on_proc, setpgid, getpgid,
\* and the creation of a thread in an unknown process
UnknownIdIsInvalidHandle ==
    [][\A c \in CPUs :
          /\ \A id \in HandleInputs :
                 UnknownThreadLookup(c, id) \/ UnknownProcLookup(c, id)
                     \/ UnknownPidGroupCall(c, id)
                         => ReturnsUnchanged(c, ERR_INVALID_HANDLE)
          /\ UnknownProcCreate(c)
                 => threads'[current[c]].ret = ERR_INVALID_HANDLE]_vars

\* what the code does: the six lookups refuse an unknown id with
\* ERR_INVALID_HANDLE; setpgid and getpgid answer an unknown pid with
\* ERR_NOT_FOUND, and thread creation an unknown process with
\* ERR_TASK_PROC_DELETED; none of them changes other state on that step
UnknownIdRefused ==
    [][\A c \in CPUs :
          /\ \A id \in HandleInputs :
                 /\ UnknownThreadLookup(c, id) \/ UnknownProcLookup(c, id)
                        => ReturnsUnchanged(c, ERR_INVALID_HANDLE)
                 /\ UnknownPidGroupCall(c, id) => ReturnsUnchanged(c, ERR_NOT_FOUND)
          /\ UnknownProcCreate(c)
                 => threads'[current[c]].ret = ERR_TASK_PROC_DELETED]_vars


-----------------------------------------------------------------------------
(* Signals sent to a process group and to a session *)

SigInputs == {"SIGSTOP", "SIGCONT"}

send_pgrp_signal_etc(c, pgid, sig) ==
    /\ AtPc(c, "run")
    /\ \E ub \in UBOutcomes :
         LET self == current[c]
             err  == IF pgid \in DOMAIN pgid_hash THEN NO_ERROR ELSE ERR_NOT_FOUND
             ps   == send_pgrp_signal_etc_locked(ProcState, pgid, sig, ub)
         IN  IF ps.fault # "" THEN ProcCommit(ps)
             ELSE ProcCommit([ps EXCEPT !.sched.threads[self].ret = err])
    /\ UNCHANGED <<thread_hash, next_thread_id, deathVars, next_proc_id>>
    /\ UNCHANGED lockVars

\* send_proc_signal_etc(pid, signal, flags) resolves the process id pid to
\* its main thread and sends to that thread
send_proc_signal_etc(ps, pid, signal, ub) ==
    LET p == proc_get_proc_struct_locked(ps.proc_hash, pid) IN
    IF p = NULL THEN ps ELSE SendToMainThread(ps, p, signal, ub)

\* send_proc_signal_etc(p->main_thread->id, signal, flags | SIG_FLAG_NO_RESCHED)
\* for one member of the list
SendToSessionMember(ps, p, signal, ub) ==
    LET ps1 == TouchProc(ps, p, ub) IN
    IF ps1.fault # "" THEN ps1
    ELSE IF ps1.procs[p].main_thread = NULL
         THEN IF ub = -1
              THEN [ps1 EXCEPT !.fault = "main_thread is NULL"]
              ELSE send_proc_signal_etc(ps1, ub, signal, ub)
    ELSE send_proc_signal_etc(ps1, ps1.sched.threads[ps1.procs[p].main_thread].id,
                              signal, ub)

RECURSIVE SendToSession(_, _, _, _)
SendToSession(ps, members, signal, ub) ==
    IF members = <<>> \/ ps.fault # "" THEN ps
    ELSE SendToSession(SendToSessionMember(ps, Head(members), signal, ub),
                       Tail(members), signal, ub)

\* what GRAB_PROC_LOCK does on a CPU that holds the process lock: the
\* spinlock is not recursive, so the CPU spins on it for ever, or the
\* single-CPU build takes no lock at all and the call goes on
ReacquireOutcomes == {"spins", "passes"}

send_session_signal_etc(c, sid, sig) ==
    /\ AtPc(c, "run")
    /\ LET self == current[c] IN
       IF sid \notin DOMAIN sid_hash
       THEN ProcCommit([ProcState EXCEPT !.sched.threads[self].ret = ERR_NOT_FOUND])
       ELSE \E ub \in UBOutcomes, lock \in ReacquireOutcomes :
                LET ps == SendToSession(ProcState, sid_hash[sid], sig, ub) IN
                IF sid_hash[sid] # <<>> /\ lock = "spins"
                THEN ProcCommit([ProcState EXCEPT !.sched.threads[self].pc = "spin"])
                ELSE IF ps.fault # "" THEN ProcCommit(ps)
                ELSE ProcCommit([ps EXCEPT !.sched.threads[self].ret = NO_ERROR])
    /\ UNCHANGED <<thread_hash, next_thread_id, deathVars, next_proc_id>>
    /\ UNCHANGED lockVars

SigProcs == 2         \* process ids in use in SpecSignal
SigIds == 1..(SigProcs + 1)

NextSignal ==
    \E c \in CPUs :
        \/ thread_yield(c)
        \/ threads[current[c]].pc \in {"pc_publish", "pc_setup", "pc_resume", "launch"}
               /\ reschedule_event(c)
        \/ next_thread_id <= BootThread /\ thread_create_thread(c)
        \/ IsIdle(current[c]) /\ thread_resume_thread(c, BootThread)
        \/ ct_hash(c)
        \/ ct_proc(c)
        \/ ct_finish(c)
        \/ \E flags \in ProcFlags :
               next_proc_id <= SigProcs /\ proc_create_proc(c, flags)
        \/ pc_publish(c)
        \/ pc_setup(c)
        \/ pc_resume(c)
        \/ pc_err1(c)
        \/ proc_create_proc2(c)
        \/ \E id \in SigIds, sig \in SigInputs :
               \/ send_pgrp_signal_etc(c, id, sig)
               \/ send_session_signal_etc(c, id, sig)

SpecSignal == Init /\ [][NextSignal]_vars


\* the signal is recorded once for the main thread of every process on the
\* member list, for nobody else, and is pending on it when it is SIGSTOP
DeliveredOnce(members, sig) ==
    /\ Len(last_sends') = Len(members)
    /\ \A m \in SeqSet(members) :
           /\ procs[m].main_thread # NULL
           /\ Cardinality({i \in DOMAIN last_sends' :
                              last_sends'[i] = <<threads[procs[m].main_thread].id, sig>>}) = 1
           /\ sig = "SIGSTOP" => sig \in threads'[procs[m].main_thread].sig_pending

\* the call on CPU c returns ERR_NOT_FOUND and has sent nothing
NothingDelivered(c) ==
    /\ threads'[current[c]].ret = ERR_NOT_FOUND
    /\ last_sends' = <<>>
    /\ \A r \in Recs : [threads'[r] EXCEPT !.ret = 0] = [threads[r] EXCEPT !.ret = 0]
    /\ UNCHANGED <<schedVars, procVars, panic>>

FanOutOutcome(c, table, id, sig) ==
    /\ panic' = ""
    /\ current' = current
    /\ threads'[current[c]].pc = "run"
    /\ IF id \in DOMAIN table
       THEN threads'[current[c]].ret = NO_ERROR /\ DeliveredOnce(table[id], sig)
       ELSE NothingDelivered(c)

AllHaveMainThread(table, id) ==
    id \in DOMAIN table => \A m \in SeqSet(table[id]) : procs[m].main_thread # NULL

\* C21: send_pgrp_signal_etc(pgid, sig, flags) delivers sig exactly once to
\* the main thread of every member of group pgid at the time of the call,
\* without a reschedule, and returns ERR_NOT_FOUND delivering nothing when
\* there is no group pgid
PgrpSignalDelivered ==
    [][\A c \in CPUs, pgid \in SigIds, sig \in SigInputs :
          send_pgrp_signal_etc(c, pgid, sig) => FanOutOutcome(c, pgid_hash, pgid, sig)]_vars

\* the same for the groups whose members all have their main thread
PgrpSignalDeliveredToMainThreads ==
    [][\A c \in CPUs, pgid \in SigIds, sig \in SigInputs :
          send_pgrp_signal_etc(c, pgid, sig) /\ AllHaveMainThread(pgid_hash, pgid)
              => FanOutOutcome(c, pgid_hash, pgid, sig)]_vars

\* C22: send_session_signal_etc(sid, sig, flags) delivers sig to the thread
\* whose id is member.main_thread.id for every member of session sid, and
\* returns ERR_NOT_FOUND delivering nothing when there is no session sid
SessionSignalDelivered ==
    [][\A c \in CPUs, sid \in SigIds, sig \in SigInputs :
          send_session_signal_etc(c, sid, sig) => FanOutOutcome(c, sid_hash, sid, sig)]_vars

\* the part that holds: an unknown session id is answered ERR_NOT_FOUND
UnknownSessionNotFound ==
    [][\A c \in CPUs, sid \in SigIds, sig \in SigInputs :
          send_session_signal_etc(c, sid, sig) /\ sid \notin DOMAIN sid_hash
              => NothingDelivered(c)]_vars

\* even with every member's main thread in place and the lock passed, the
\* session fan-out misses a member
SessionSignalDeliveredToMainThreads ==
    [][\A c \in CPUs, sid \in SigIds, sig \in SigInputs :
          /\ send_session_signal_etc(c, sid, sig)
          /\ AllHaveMainThread(sid_hash, sid)
          /\ threads'[current[c]].pc = "run"
          => FanOutOutcome(c, sid_hash, sid, sig)]_vars


-----------------------------------------------------------------------------
(* Priority changes over the whole range of int *)

\* user_thread_set_priority handing the priority on as it was passed
ClampUserPriorityNone(priority) == priority

\* "clamp the priority levels the user can set their threads to"
ClampUserPriority(priority) ==
    IF priority > THREAD_MAX_PRIORITY THEN THREAD_MAX_PRIORITY ELSE priority

user_thread_set_priority(c, id, priority) ==
    thread_set_priority(c, id, ClampUserPriority(priority))

PrioThreads == 3      \* thread ids in use in SpecPrio

\* the ends of int, and the values next to each bound of the priority bands
PrioRange == {0 - 2147483647 - 1, THREAD_IDLE_PRIORITY, THREAD_MIN_RT_PRIORITY,
              THREAD_NUM_PRIORITY_LEVELS, 2147483647}

NextPrio ==
    \E c \in CPUs :
        \/ thread_yield(c)
        \/ reschedule_event(c)
        \/ \E id \in 1..PrioThreads, p \in PrioRange :
               \/ thread_set_priority(c, id, p)
               \/ user_thread_set_priority(c, id, p)
        \/ \E id \in 1..PrioThreads : thread_resume_thread(c, id)
        \/ next_thread_id <= PrioThreads /\ thread_create_thread(c)
        \/ ct_hash(c)
        \/ ct_proc(c)
        \/ ct_finish(c)

SpecPrio == Init /\ [][NextPrio]_vars

\* the record that holds thread id, the caller's own included
TargetOf(c, id) ==
    IF threads[current[c]].id = id THEN current[c]
    ELSE thread_get_thread_struct_locked(threads, thread_hash, id)

RunQueueIndexInRange ==
    /\ DOMAIN run_q \subseteq 0..(THREAD_NUM_PRIORITY_LEVELS - 1)
    /\ \A i \in DOMAIN run_q : \A k \in DOMAIN run_q[i] : threads[run_q[i][k]].priority = i

\* the priority of the thread that holds id lies in lo..hi after this step
PriorityWithin(c, id, lo, hi) ==
    TargetOf(c, id) # NULL => threads'[TargetOf(c, id)].priority \in lo..hi

\* no step that leaves the priority outside the band is a step of the call
SetPriorityInBand ==
    \A c \in CPUs, id \in 1..PrioThreads, p \in PrioRange :
        /\ ~PriorityWithin(c, id, THREAD_MIN_PRIORITY, THREAD_MAX_RT_PRIORITY)
               => ~thread_set_priority(c, id, p)
        /\ ~PriorityWithin(c, id, THREAD_MIN_PRIORITY, THREAD_MAX_PRIORITY)
               => ~user_thread_set_priority(c, id, p)

\* C23: after thread_set_priority(id, p) on an existing thread its priority
\* lies in [THREAD_MIN_PRIORITY, THREAD_MAX_RT_PRIORITY], after
\* user_thread_set_priority(id, p) in [THREAD_MIN_PRIORITY,
\* THREAD_MAX_PRIORITY], for every int p; and no thread is ever linked on a
\* run queue index outside [0, THREAD_NUM_PRIORITY_LEVELS - 1]
PriorityClamped == [][SetPriorityInBand]_vars /\ []RunQueueIndexInRange

\* C23 witness: a READY thread that a priority change put at the top of the
\* regular band next to a thread at the bottom of it, both by clamping
ClampedToBothEnds ==
    \E r, q \in Recs \ CPUs :
        /\ threads[r].state = "READY" /\ threads[r].priority = THREAD_MAX_PRIORITY
        /\ SeqCount(RunQ(run_q, THREAD_MAX_PRIORITY), r) = 1
        /\ threads[q].id > 0 /\ threads[q].priority = THREAD_MIN_PRIORITY


-----------------------------------------------------------------------------
(* The regular scan when every level is skipped *)

\* _rand() <= 0x3000 at every non-empty regular level: each one is skipped
SkippedAll(rq) == [i \in NonEmptyRegular(rq) |-> RAND_SKIP_THRESHOLD]

SetMin(S) == CHOOSE x \in S : \A y \in S : x <= y

\* the thread a dispatch on CPU c selects from here when no real-time thread
\* is queued and the scan skips every regular level, and the head of the
\* level that pick(levels) names; TRUE where the dispatch has no such scan
AllSkippedSelects(c, pick(_)) ==
    LET rq == ReschedOutgoing(SchedState, c).run_q IN
    panic = "" /\ ScanRT(rq) = -1 /\ NonEmptyRegular(rq) # {}
        => thread_resched(SchedState, c, SkippedAll(rq)).current[c]
               = thread_lookat_run_q(rq, pick(NonEmptyRegular(rq)))

\* C24: when every non-empty regular level was skipped during one
\* thread_resched scan, the thread selected is the head of the highest of the
\* skipped levels
AllSkippedSelectsHighest == \A c \in CPUs : AllSkippedSelects(c, SetMax)

\* what the scan does: last_thread_pri is overwritten at every skipped level,
\* so the head of the lowest skipped level is selected
AllSkippedSelectsLowest == \A c \in CPUs : AllSkippedSelects(c, SetMin)

\* two regular levels are non-empty when the dispatcher is entered
TwoLevelsToSkip ==
    \E c \in CPUs :
        LET rq == ReschedOutgoing(SchedState, c).run_q IN
        panic = "" /\ ScanRT(rq) = -1 /\ Cardinality(NonEmptyRegular(rq)) >= 2


-----------------------------------------------------------------------------
(* The scheduler on more than one CPU: every CPU has its own idle thread,  *)
(* and they all dispatch from the one set of run queues                    *)

NumSmpCPUs == 2       \* ka->num_cpus in SpecSMP
SmpCPUs == 1..NumSmpCPUs
SmpThreads == 4       \* thread ids in use in SpecSMP

\* thread_init with ka->num_cpus = NumSmpCPUs: idle_threads[c] is record c
InitSMP ==
    /\ threads = [r \in Recs |-> IF r \in SmpCPUs THEN IdleThread(r) ELSE FreeThread]
    /\ thread_hash = SmpCPUs
    /\ next_thread_id = NumSmpCPUs + 1
    /\ run_q = <<>>
    /\ dead_q = <<>>
    /\ current = [c \in SmpCPUs |-> c]
    /\ death_stack_bitmap = {}
    /\ death_stack_sem = [count |-> num_death_stacks, waiters |-> <<>>]
    /\ procs = [p \in ProcIds |->
                  IF p = KERNEL_PROC
                  THEN [create_proc_struct EXCEPT
                            !.state = "NORMAL", !.parent = KERNEL_PROC,
                            !.pgid = KERNEL_PROC, !.sid = KERNEL_PROC,
                            !.thread_list = IdleThreadList(NumSmpCPUs),
                            !.num_threads = NumSmpCPUs, !.main_thread = 1]
                  ELSE FreeProc]
    /\ proc_hash = {KERNEL_PROC}
    /\ next_proc_id = KERNEL_PROC + 1
    /\ pgid_hash = (KERNEL_PROC :> <<KERNEL_PROC>>)
    /\ sid_hash = (KERNEL_PROC :> <<KERNEL_PROC>>)
    /\ last_sends = <<>>
    /\ last_pick = [cpu |-> 0, thread |-> NULL, level |-> 0 - 1, rt |-> {}]
    /\ rt_ready = {}
    /\ panic = ""
    /\ proc_spinlock = 0
    /\ thread_spinlock = 0
    /\ lock_path = [c \in LockCPUs |-> <<>>]
    /\ udp_init

NextSMP ==
    \E c \in SmpCPUs :
        \/ thread_yield(c)
        \/ reschedule_event(c)
        \/ next_thread_id <= SmpThreads /\ thread_create_thread(c)
        \/ ct_hash(c)
        \/ ct_proc(c)
        \/ ct_finish(c)
        \/ \E id \in (NumSmpCPUs + 1)..SmpThreads : thread_resume_thread(c, id)

SpecSMP == InitSMP /\ [][NextSMP]_vars

\* C25: each CPU's idle thread runs on that CPU only: a thread_resched on
\* CPU c that falls back to the idle priority level dequeues and switches to
\* idle_threads[c], never to another CPU's idle thread
IdleThreadStaysOnItsCPU ==
    /\ \A c \in SmpCPUs : current[c] \in SmpCPUs => current[c] = c
    /\ last_pick.thread # NULL /\ last_pick.level = THREAD_IDLE_PRIORITY
           => last_pick.thread = last_pick.cpu

\* what holds: the idle fallback selects an idle thread, and every CPU runs
\* one thread that no other CPU runs
IdleFallbackSelectsAnIdleThread ==
    /\ last_pick.thread # NULL /\ last_pick.level = THREAD_IDLE_PRIORITY
           => last_pick.thread \in SmpCPUs
    /\ \A c, d \in SmpCPUs : c # d => current[c] # current[d]
    /\ panic = ""


-----------------------------------------------------------------------------
(* A priority change on a thread other than the caller *)

\* the queues and fields that thread_set_priority(id, p) by the thread on CPU
\* c leaves for target record t, where queued(pr) is the level a READY target
\* is appended to
PriorityChangeOutcome(c, t, p, queued(_)) ==
    LET pr  == ClampSetPriority(p)
        old == threads[t].priority
    IN  /\ current' = current
        /\ \A r \in Recs \ {t} : threads'[r].priority = threads[r].priority
        /\ \A r \in Recs : threads'[r].state = threads[r].state
        /\ IF threads[t].state = "READY" /\ old # pr
           THEN /\ threads'[t].priority = queued(pr)
                /\ RunQ(run_q', queued(pr))
                       = Append(SeqRemove(RunQ(run_q, queued(pr)), t), t)
                /\ \A i \in Levels \ {queued(pr)} :
                       RunQ(run_q', i) = SeqRemove(RunQ(run_q, i), t)
           ELSE /\ threads'[t].priority = pr
                /\ run_q' = run_q

PriorityChangeStep(c, id, p, queued(_)) ==
    LET t == thread_get_thread_struct_locked(threads, thread_hash, id) IN
    thread_set_priority(c, id, p) /\ t # NULL /\ t # current[c]
        => PriorityChangeOutcome(c, t, p, queued)

SamePriority(pr) == pr

\* C26: thread_set_priority(id, p) on a READY thread other than the caller
\* whose priority differs from the clamped p takes it off its old run queue
\* and appends it at the tail of the run queue of the new priority in one
\* step; on a thread that is not READY, or whose priority is unchanged, only
\* the priority field is written and no queue changes
ReadyThreadRequeuedAtNewPriority ==
    [][\A c \in CPUs, id \in 1..SchedThreads, p \in PrioInputs :
          PriorityChangeStep(c, id, p, SamePriority)]_vars

\* what holds: the READY thread is appended to the level that
\* thread_enqueue_run_q clamps the new priority to
ReadyThreadRequeuedAtClampedPriority ==
    [][\A c \in CPUs, id \in 1..SchedThreads, p \in PrioInputs :
          PriorityChangeStep(c, id, p, ClampRunQPriority)]_vars


-----------------------------------------------------------------------------
(* A created thread stays off the CPUs until it is resumed *)

OnNoRunQueue(r) == \A i \in DOMAIN run_q : SeqCount(run_q[i], r) = 0

\* a thread in BIRTH or SUSPENDED is on no run queue and on no CPU
NotDispatchable ==
    \A r \in Recs :
        threads[r].state \in {"BIRTH", "SUSPENDED"}
            => OnNoRunQueue(r) /\ \A c \in SmpCPUs : current[c] # r

\* the step in which _create_thread returns the id of thread record t
CreateReturns(c, t) ==
    /\ threads[current[c]].pc = "ct_finish"
    /\ threads[current[c]].nt = t
    /\ threads'[current[c]].pc # "ct_finish"

CreatedSuspendedStep ==
    /\ \A c \in SmpCPUs, t \in Recs :
           CreateReturns(c, t)
               => /\ threads'[current[c]].ret = threads[t].id
                  /\ threads'[t].state = "SUSPENDED"
                  /\ \A i \in DOMAIN run_q' : SeqCount(run_q'[i], t) = 0
    /\ \A r \in Recs :
           /\ threads[r].state = "BIRTH" => threads'[r].state \in {"BIRTH", "SUSPENDED"}
           /\ threads[r].state = "SUSPENDED" /\ threads'[r].state # "SUSPENDED"
                  => \E c \in SmpCPUs : thread_resume_thread(c, threads[r].id)

-----------------------------------------------------------------------------
(* Threads exit and their records are reused, on more than one CPU *)

SmpExitThreads == 4   \* thread ids in use in SpecSMPExit

NextSMPExit ==
    \E c \in SmpCPUs :
        \/ thread_yield(c)
        \/ reschedule_event(c)
        \/ next_thread_id <= SmpExitThreads /\ thread_create_thread(c)
        \/ ct_hash(c)
        \/ ct_proc(c)
        \/ ct_finish(c)
        \/ \E id \in (NumSmpCPUs + 1)..SmpExitThreads : thread_resume_thread(c, id)
        \/ current[c] \notin SmpCPUs /\ thread_exit(c, 0)
        \/ te_detach(c)
        \/ te_retcode(c)
        \/ te_gate(c)
        \/ te_bitmap(c)
        \/ te_exit2(c)
        \/ te_unhash(c)
        \/ te_put(c)

SpecSMPExit == InitSMP /\ [][NextSMPExit]_vars

\* a record on the dead queue, or past its last dispatch, is quiesced: it is
\* FREE_ON_RESCHED, out of the thread index, on the dead queue once, on no
\* run queue and on no CPU
DeadRecordsQuiesced ==
    \A r \in Recs :
        SeqCount(dead_q, r) > 0 \/ threads[r].pc = "dead"
            => /\ threads[r].state = "FREE_ON_RESCHED"
               /\ threads[r].pc = "dead"
               /\ SeqCount(dead_q, r) = 1
               /\ r \notin thread_hash
               /\ OnNoRunQueue(r)
               /\ \A c \in SmpCPUs : current[c] # r

DeadRecordStep ==
    /\ \A c \in SmpCPUs :
           threads[current[c]].pc = "te_put" /\ threads'[current[c]].pc = "dead"
               => /\ SeqCount(dead_q', current[c]) = 1
                  /\ current'[c] # current[c]
    /\ \A r \in Recs :
           SeqCount(dead_q, r) > 0 /\ SeqCount(dead_q', r) = 0
               => /\ \A c \in SmpCPUs : current[c] # r
                  /\ threads'[r].state = "BIRTH"
                  /\ \E c \in SmpCPUs : threads'[current[c]].nt = r

\* C28: the dispatch that the exit continuation invokes with next_state =
\* FREE_ON_RESCHED puts the record on the dead queue and switches away from
\* it in one step; from then on the record is on no run queue and on no CPU,
\* and create_thread_struct takes it for reuse only when no CPU runs on it
DeadRecordNeverRunsAgain == []DeadRecordsQuiesced /\ [][DeadRecordStep]_vars

\* C28 witness: the record of an exited thread has been reused for a new
\* thread, which runs on a CPU
DeadRecordReused ==
    \E r \in Recs \ SmpCPUs :
        /\ threads[r].id > r
        /\ threads[r].state = "RUNNING"
        /\ \E c \in SmpCPUs : current[c] = r


-----------------------------------------------------------------------------
(* One node per id in the group table and in the session table *)

NodeProcs == 2        \* process ids in use in SpecNode
NodeGroupIds == {NodeProcs, NodeProcs + 1}

NextNode ==
    \E c \in CPUs :
        \/ thread_yield(c)
        \/ threads[current[c]].pc \in {"pc_publish", "pc_setup", "pc_resume", "launch",
                                       "sp_lock", "sp_alloc", "sp_insert",
                                       "ss_lock", "ss_alloc", "ss_insert"}
               /\ reschedule_event(c)
        \/ next_thread_id <= BootThread /\ thread_create_thread(c)
        \/ IsIdle(current[c]) /\ thread_resume_thread(c, BootThread)
        \/ ct_hash(c)
        \/ ct_proc(c)
        \/ ct_finish(c)
        \/ \E flags \in ProcFlags :
               next_proc_id <= NodeProcs /\ proc_create_proc(c, flags)
        \/ pc_publish(c)
        \/ pc_setup(c)
        \/ pc_resume(c)
        \/ pc_err1(c)
        \/ proc_create_proc2(c)
        \/ \E pgid \in NodeGroupIds : setpgid(c, 0, pgid)
        \/ sp_lock(c)
        \/ sp_alloc(c)
        \/ sp_insert(c)
        \/ setsid(c)
        \/ ss_lock(c)
        \/ ss_alloc(c)
        \/ ss_insert(c)

SpecNode == Init /\ [][NextNode]_vars

\* the ids of which table h holds more than one node
DuplicateIds(h) == {g \in DOMAIN h : g < 0}

\* C29: the pgid table never holds two nodes with the same id, whatever the
\* interleaving of setpgid calls for a group that does not exist yet and of
\* proc_create_proc with NEW_PGROUP; nor does the session table under setsid
\* and NEW_SESSION
OneNodePerId == DuplicateIds(pgid_hash) = {} /\ DuplicateIds(sid_hash) = {}

\* what holds: the session table has one node per id, and neither setpgid
\* nor setsid adds a node for an id that is in its table
OneNodePerSessionId ==
    /\ [](DuplicateIds(sid_hash) = {})
    /\ [][\A c \in CPUs :
             threads[current[c]].pc \in {"sp_insert", "ss_insert"}
                 /\ threads'[current[c]].pc = "run"
                 => DuplicateIds(pgid_hash') = DuplicateIds(pgid_hash)]_vars

\* two setpgid calls for the same new group have both passed their first
\* section before either node is published
TwoSetpgidRaceForOneGroup ==
    \E r, q \in Recs :
        /\ r # q
        /\ threads[r].pc \in {"sp_alloc", "sp_insert"}
        /\ threads[q].pc \in {"sp_alloc", "sp_insert"}
        /\ threads[r].arg2 = threads[q].arg2


-----------------------------------------------------------------------------
(* A process record is freed when its last thread has left it *)

\* the main thread reaches the teardown with the thread count at zero
TeardownAwaitsCount ==
    \A r \in Recs :
        threads[r].pc = "te_teardown" => procs[threads[r].arg].num_threads = 0

\* no thread in the thread index refers to a freed process record, and no
\* freed record is in the process index
NoThreadOfFreedProc ==
    \A p \in ProcIds :
        procs[p].state = "FREED"
            => /\ p \notin proc_hash
               /\ \A q \in thread_hash : threads[q].proc # p

\* the teardown of thread_exit: the record leaves the process index and is
\* freed with no thread left in it
ExitFreeStep(r) ==
    threads[r].pc = "te_teardown" /\ threads'[r].pc = "te_sigchld"
        => LET p == threads[r].arg IN
           /\ procs[p].num_threads = 0
           /\ procs[p].thread_list = <<>>
           /\ p \in proc_hash /\ p \notin proc_hash'
           /\ procs'[p].state = "FREED"
           /\ \A q \in thread_hash' : threads'[q].proc # p

\* C30: a process record is removed from the process index and freed only
\* after its thread count has reached zero: the exiting main thread kills
\* every sibling and does not start the teardown before num_threads = 0, so
\* when the record is freed no thread in the thread index refers to it
ProcFreedAfterThreadsGone ==
    /\ []TeardownAwaitsCount
    /\ []NoThreadOfFreedProc
    /\ [][\A r \in Recs : ExitFreeStep(r)]_vars

\* the main thread has just freed its process record and a sibling, created
\* after it, is on its way out or dead
FreedAfterSiblingDied ==
    \E r, q \in Recs :
        /\ threads[r].pc = "te_sigchld"
        /\ procs[LifeProcs].state = "FREED"
        /\ q # r
        /\ threads[q].id > threads[r].id
        /\ threads[q].proc = KERNEL_PROC
        /\ threads[q].state \in {"RUNNING", "READY", "FREE_ON_RESCHED"}


-----------------------------------------------------------------------------
(* check_for_pgrp_connection as the exit path calls it *)

\* thread r is about to run the teardown of thread_exit and the orphan test
\* of its process's group is part of it
PendingOrphanCheck(r) ==
    /\ threads[r].pc = "te_teardown"
    /\ LET p == threads[r].arg IN
       /\ procs[p].parent # NULL
       /\ procs[p].sid = procs[procs[p].parent].sid
       /\ procs[p].pgid # procs[procs[p].parent].pgid

MembersOf(pgid) == IF pgid \in DOMAIN pgid_hash THEN pgid_hash[pgid] ELSE <<>>

\* every record the call reads is a live record
ConnectionReadsLive(pgid, check_for, ignore_proc) ==
    \A q \in ConnectionReads(procs, MembersOf(pgid), check_for, ignore_proc) :
        procs[q].state # "FREED"

\* the group has a member other than ignore_proc whose parent is in check_for
HasConnection(pgid, check_for, ignore_proc) ==
    /\ pgid \in DOMAIN pgid_hash
    /\ \E m \in SeqSet(pgid_hash[pgid]) :
           /\ m # ignore_proc
           /\ procs[m].parent # NULL
           /\ procs[procs[m].parent].pgid = check_for

ConnectionDecided(r) ==
    LET p == threads[r].arg
        pgid == procs[p].pgid
        check_for == procs[procs[p].parent].pgid
    IN  /\ ConnectionReadsLive(pgid, check_for, p)
        /\ check_for_pgrp_connection(ProcState, pgid, check_for, p)
               <=> HasConnection(pgid, check_for, p)

\* C31: check_for_pgrp_connection(pgid, check_for, ignore) returns true if and
\* only if the group pgid exists and has a member other than ignore whose
\* parent's pgid is check_for, false for a group that does not exist or is
\* empty, reading the member records only
ConnectionIffMemberWithParentIn ==
    \A r \in Recs : PendingOrphanCheck(r) => ConnectionDecided(r)

\* what holds: the result is the one stated whenever every member record on
\* the list is a live record
ConnectionIffLiveMemberWithParentIn ==
    \A r \in Recs :
        PendingOrphanCheck(r)
            => LET p == threads[r].arg
                   pgid == procs[p].pgid
                   check_for == procs[procs[p].parent].pgid
               IN  ConnectionReadsLive(pgid, check_for, p)
                       => (check_for_pgrp_connection(ProcState, pgid, check_for, p)
                               <=> HasConnection(pgid, check_for, p))

\* an orphan test is pending on a group that has a connection
ConnectedGroupTested ==
    \E r \in Recs :
        /\ PendingOrphanCheck(r)
        /\ HasConnection(procs[threads[r].arg].pgid,
                         procs[procs[threads[r].arg].parent].pgid, threads[r].arg)


-----------------------------------------------------------------------------
(* Processes that join their sibling's group, and exit *)

OrphanProcs == 4      \* process ids in use in SpecOrphan

NextOrphan ==
    \E c \in CPUs :
        \/ thread_yield(c)
        \/ threads[current[c]].pc \in {"pc_resume", "launch", "te_teardown"}
               /\ reschedule_event(c)
        \/ next_thread_id <= BootThread /\ thread_create_thread(c)
        \/ IsIdle(current[c]) /\ thread_resume_thread(c, BootThread)
        \/ ct_hash(c)
        \/ ct_proc(c)
        \/ ct_finish(c)
        \/ next_proc_id <= KERNEL_PROC + 1
               /\ proc_create_proc(c, {"NEW_SESSION", "NEW_PGROUP"})
        \/ \E flags \in {{}, {"NEW_PGROUP"}} :
               /\ next_proc_id <= OrphanProcs
               /\ threads[current[c]].proc = KERNEL_PROC + 1
               /\ proc_create_proc(c, flags)
        \/ pc_publish(c)
        \/ pc_setup(c)
        \/ pc_resume(c)
        \/ pc_err1(c)
        \/ proc_create_proc2(c)
        \/ threads[current[c]].proc > KERNEL_PROC + 1
               /\ setpgid(c, 0, OrphanProcs - 1)
        \/ sp_lock(c)
        \/ sp_alloc(c)
        \/ sp_insert(c)
        \/ threads[current[c]].proc > KERNEL_PROC + 1 /\ thread_exit(c, 0)
        \/ te_detach(c)
        \/ te_kill(c)
        \/ te_teardown(c)
        \/ te_sigchld(c)
        \/ te_retcode(c)
        \/ te_gate(c)
        \/ te_bitmap(c)
        \/ te_exit2(c)
        \/ te_unhash(c)
        \/ te_put(c)

SpecOrphan == Init /\ [][NextOrphan]_vars


-----------------------------------------------------------------------------
(* Two CPUs, two death stacks, three threads that exit *)

StackThreads == 5     \* thread ids in use in SpecStacks

NextStacks ==
    \E c \in SmpCPUs :
        \/ thread_yield(c)
        \/ next_thread_id <= StackThreads /\ current[c] \in SmpCPUs
               /\ thread_create_thread(c)
        \/ ct_hash(c)
        \/ ct_proc(c)
        \/ ct_finish(c)
        \/ \E id \in (NumSmpCPUs + 1)..StackThreads :
               current[c] \in SmpCPUs /\ thread_resume_thread(c, id)
        \/ current[c] \notin SmpCPUs /\ thread_exit(c, 0)
        \/ te_detach(c)
        \/ te_retcode(c)
        \/ te_gate(c)
        \/ te_bitmap(c)
        \/ te_exit2(c)
        \/ te_unhash(c)
        \/ te_put(c)

SpecStacks == InitSMP /\ [][NextStacks]_vars

\* the threads that hold death stack i: past get_death_stack, before the put
HoldersOf(i) ==
    {r \in Recs : threads[r].pc \in {"te_exit2", "te_unhash", "te_put"}
                      /\ threads[r].arg = i}

\* a thread past the semaphore of get_death_stack finds a clear bit below
\* num_death_stacks, and a thread about to put holds a set bit in range
DeathStackSanity ==
    /\ \A r \in Recs :
           threads[r].pc = "te_bitmap" /\ threads[r].state = "RUNNING"
               => /\ LowestClearBit(death_stack_bitmap) >= 0
                  /\ LowestClearBit(death_stack_bitmap) < num_death_stacks
    /\ \A r \in Recs :
           threads[r].pc \in {"te_exit2", "te_unhash", "te_put"}
               => /\ threads[r].arg < num_death_stacks
                  /\ BitSet(death_stack_bitmap, threads[r].arg)
    /\ panic \notin {"get_death_stack: couldn't find free stack!",
                     "put_death_stack: passed invalid stack index"}

\* get_death_stack: the index returned was the lowest clear bit, is below
\* num_death_stacks, and is the one bit that the call sets
GetDeathStackStep(c) ==
    threads[current[c]].pc = "te_bitmap" /\ threads'[current[c]].pc = "te_exit2"
        => LET i == threads'[current[c]].arg IN
           /\ i >= 0 /\ i < num_death_stacks
           /\ ~BitSet(death_stack_bitmap, i)
           /\ \A j \in 0..(i - 1) : BitSet(death_stack_bitmap, j)
           /\ death_stack_bitmap' = death_stack_bitmap \cup {i}

\* C32: get_death_stack sets and returns the index of the lowest clear bit of
\* death_stack_bitmap; in whatever order held death stacks are returned that
\* index is below num_death_stacks and was clear before the call, so neither
\* the panics of get_death_stack nor those of put_death_stack_and_reschedule
\* are reached
LowestFreeDeathStackTaken ==
    /\ []DeathStackSanity
    /\ [][\A c \in SmpCPUs : GetDeathStackStep(c)]_vars

\* death stack 0 has been returned while death stack 1 is still held, and a
\* third thread is inside get_death_stack, past the semaphore
LowerStackReturnedFirst ==
    /\ death_stack_bitmap = {1}
    /\ HoldersOf(1) # {}
    /\ \E r \in Recs : threads[r].pc = "dead"
    /\ \E r \in Recs : threads[r].pc = "te_bitmap" /\ threads[r].state = "RUNNING"


-----------------------------------------------------------------------------
(* One holder per death stack *)

\* every death stack has at most one holder, its bit is set while it is held,
\* and a thread that gave its death stack back runs on no CPU
OneHolderPerDeathStack ==
    /\ \A i \in 0..(num_death_stacks - 1) :
           /\ Cardinality(HoldersOf(i)) <= 1
           /\ HoldersOf(i) # {} => BitSet(death_stack_bitmap, i)
    /\ \A r \in Recs :
           threads[r].pc = "dead" => \A c \in SmpCPUs : current[c] # r

\* put_death_stack_and_reschedule clears the bit and leaves the CPU in one
\* critical section
PutDeathStackStep(c) ==
    threads[current[c]].pc = "te_put" /\ threads'[current[c]].pc = "dead"
        => /\ current'[c] # current[c]
           /\ BitSet(death_stack_bitmap, threads[current[c]].arg)
           /\ death_stack_bitmap' = death_stack_bitmap \ {threads[current[c]].arg}

\* get_death_stack hands out an index that no thread on any CPU holds
GetFreeDeathStackStep(c) ==
    threads[current[c]].pc = "te_bitmap" /\ threads'[current[c]].pc = "te_exit2"
        => HoldersOf(threads'[current[c]].arg) = {}

\* C33: a death stack is never held by two threads at once: the bit is
\* cleared and the releasing thread is switched off its CPU inside one
\* thread-lock critical section, so no thread on any CPU obtains the index
\* from get_death_stack while the releasing thread is still on a CPU
DeathStackNeverShared ==
    /\ []OneHolderPerDeathStack
    /\ [][\A c \in SmpCPUs : PutDeathStackStep(c) /\ GetFreeDeathStackStep(c)]_vars

\* the first thread to exit has given death stack 0 back and the second holds
\* it, while the third thread has not been created
DeathStackPassedOn ==
    /\ next_thread_id = StackThreads
    /\ HoldersOf(0) # {}
    /\ \E r \in Recs : threads[r].pc = "dead"


-----------------------------------------------------------------------------
(* Two CPUs whose threads exit and have their priority changed *)

IdleSpecThreads == 3  \* thread ids in use in SpecIdle

NextIdle ==
    \E c \in SmpCPUs :
        \/ thread_yield(c)
        \/ next_thread_id <= IdleSpecThreads /\ current[c] \in SmpCPUs
               /\ thread_create_thread(c)
        \/ ct_hash(c)
        \/ ct_proc(c)
        \/ ct_finish(c)
        \/ \E id \in (NumSmpCPUs + 1)..IdleSpecThreads :
               current[c] \in SmpCPUs /\ thread_resume_thread(c, id)
        \/ \E id \in 1..IdleSpecThreads :
               thread_set_priority(c, id, THREAD_HIGH_PRIORITY)
        \/ current[c] \notin SmpCPUs /\ thread_exit(c, 0)
        \/ te_detach(c)
        \/ te_retcode(c)
        \/ te_gate(c)
        \/ te_bitmap(c)
        \/ te_exit2(c)
        \/ te_unhash(c)
        \/ te_put(c)

SpecIdle == InitSMP /\ [][NextIdle]_vars

\* the next_state a thread can enter thread_resched with: an idle thread
\* stays runnable, any other thread may block, be suspended or be dying
OutgoingStates(r) ==
    IF r \in SmpCPUs THEN {"READY"}
    ELSE {"READY", "WAITING", "SUSPENDED", "FREE_ON_RESCHED"}

\* thread_resched called on CPU c with the outgoing thread in next_state ns
\* finds a thread on the idle queue when the other queues are empty
IdleQueueServes(c, ns) ==
    LET st == [SchedState EXCEPT !.threads[current[c]].next_state = ns]
        rq == ReschedOutgoing(st, c).run_q
    IN  ScanRT(rq) = -1 /\ NonEmptyRegular(rq) = {}
            => thread_lookat_run_q(rq, THREAD_IDLE_PRIORITY) # NULL

\* C34: the dispatcher never reaches its 'no idle priorities' panic: with
\* idle threads that never block, suspend or exit, every call of
\* thread_resched on any CPU with no real-time or regular thread runnable
\* finds the idle priority queue non-empty
NoIdlePanic ==
    /\ panic # "next_thread == NULL! no idle priorities!"
    /\ \A c \in SmpCPUs : \A ns \in OutgoingStates(current[c]) : IdleQueueServes(c, ns)

\* a thread has exited and the dispatcher it called took an idle thread from
\* the idle queue while the other CPU runs an idle thread as well
IdleTakesOverAfterExit ==
    /\ last_pick.level = THREAD_IDLE_PRIORITY
    /\ \E r \in Recs : threads[r].pc = "dead" /\ dead_q # <<>>
    /\ \A c \in SmpCPUs : current[c] \in SmpCPUs
    /\ threads[last_pick.thread].state = "RUNNING"


-----------------------------------------------------------------------------
(* The thread index seen from another CPU *)

InfoThreads == 4      \* thread ids in use in SpecInfo

NextInfo ==
    \E c \in SmpCPUs :
        \/ thread_yield(c)
        \/ next_thread_id <= InfoThreads /\ thread_create_thread(c)
        \/ ct_hash(c)
        \/ ct_proc(c)
        \/ ct_finish(c)
        \/ \E id \in (NumSmpCPUs + 1)..InfoThreads : thread_resume_thread(c, id)
        \/ \E id \in 1..(InfoThreads + 1) : thread_get_thread_info(c, id)
        \/ current[c] \notin SmpCPUs /\ thread_exit(c, 0)
        \/ te_detach(c)
        \/ te_retcode(c)
        \/ te_gate(c)
        \/ te_bitmap(c)
        \/ te_exit2(c)
        \/ te_unhash(c)
        \/ te_put(c)

SpecInfo == InitSMP /\ [][NextInfo]_vars

OnThreadListOfItsProc(r) ==
    /\ threads[r].proc # NULL
    /\ r \in SeqSet(procs[threads[r].proc].thread_list)

\* C35: every thread record that the thread index holds has a process and is
\* on that process's thread list, also between the two sections of
\* _create_thread, so that thread_get_thread_info on another CPU never reads
\* proc = NULL for an id it finds
IndexedThreadsLinked ==
    /\ \A r \in thread_hash : OnThreadListOfItsProc(r)
    /\ panic # "thread_get_thread_info: t->proc is NULL"

\* what holds: a thread whose creation has returned and whose exit has not
\* reached thread_exit2 has a process and is on its thread list
SettledThreadsLinked ==
    \A r \in thread_hash :
        /\ \A q \in Recs : threads[q].nt # r
        /\ threads[r].pc \notin {"te_unhash", "te_put"}
        => OnThreadListOfItsProc(r)


\* thread_get_thread_info has followed the NULL proc of a record it found
NullProcRead == panic = "thread_get_thread_info: t->proc is NULL"


-----------------------------------------------------------------------------
(* A process between its publication and its first thread *)

MainProcs == 2        \* process ids in use in SpecMain

NextMain ==
    \E c \in CPUs :
        \/ thread_yield(c)
        \/ threads[current[c]].pc \in {"pc_publish", "pc_setup", "pc_resume", "launch"}
               /\ reschedule_event(c)
        \/ next_thread_id <= BootThread + 1 /\ thread_create_thread(c)
        \/ \E id \in {BootThread, BootThread + 1} : thread_resume_thread(c, id)
        \/ ct_hash(c)
        \/ ct_proc(c)
        \/ ct_finish(c)
        \/ \E flags \in ProcFlags :
               /\ next_proc_id <= MainProcs
               /\ threads[current[c]].id = BootThread
               /\ proc_create_proc(c, flags)
        \/ pc_publish(c)
        \/ pc_setup(c)
        \/ pc_resume(c)
        \/ pc_err1(c)
        \/ proc_create_proc2(c)
        \/ \E id \in KERNEL_PROC..MainProcs :
               threads[current[c]].id = BootThread + 1 /\ proc_get_main_thread(c, id)
        \/ \E id \in KERNEL_PROC..MainProcs :
               threads[current[c]].id = BootThread + 1 /\ proc_kill_proc(c, id)
        \/ \E id \in KERNEL_PROC..MainProcs :
               /\ threads[current[c]].id = BootThread + 1
               /\ send_pgrp_signal_etc(c, id, "SIGCONT")
        \/ tw_lookup(c)
        \/ tw_acquire(c)

SpecMain == Init /\ [][NextMain]_vars

\* the processes found through the process index or a member list
FindableProcs ==
    proc_hash
        \cup UNION {SeqSet(pgid_hash[g]) : g \in DOMAIN pgid_hash}
        \cup UNION {SeqSet(sid_hash[g]) : g \in DOMAIN sid_hash}

\* C36: every process that can be found through the process index or through
\* a pgroup or session member list has a main_thread, also while
\* proc_create_proc has published it and not yet created its first thread, so
\* proc_kill_proc, proc_get_main_thread and the signal fan-outs never follow
\* a NULL main_thread
FindableProcHasMainThread ==
    /\ \A p \in FindableProcs : procs[p].main_thread # NULL
    /\ panic # "main_thread is NULL"

\* what holds: a process that proc_create_proc has returned the id of has a
\* main_thread
CreatedProcHasMainThread ==
    \A p \in proc_hash : procs[p].state = "NORMAL" => procs[p].main_thread # NULL

\* a lookup has followed the NULL main_thread of a published process
NullMainThreadRead == panic = "main_thread is NULL"


-----------------------------------------------------------------------------
(* setpgid on a process that exits while the node is allocated *)

\* the process record that the setpgid in progress on CPU c works on
SetpgidTarget(c) == NormPid(current[c], threads[current[c]].arg)

OnSomeGroupList(h, p) == \E g \in DOMAIN h : p \in SeqSet(h[g])

\* the second section of setpgid runs for a process that has left the
\* process index: it returns with the record on no member list and follows
\* no pointer into the freed record
SetpgidAfterExitStep(c) ==
    /\ threads[current[c]].pc = "sp_insert"
    /\ threads'[current[c]].pc # "sp_insert" \/ panic' # panic
    /\ SetpgidTarget(c) \notin proc_hash
    => /\ panic' = panic
       /\ threads'[current[c]].pc = "run"
       /\ ~OnSomeGroupList(pgid_hash', SetpgidTarget(c))

\* C37: when the process named by pid exits while setpgid(pid, g) has dropped
\* the process lock to allocate the group node, setpgid does not unlink or
\* link that process record afterwards: once it has returned, the record is
\* on no pgroup member list
SetpgidSkipsExitedProc ==
    [][\A c \in CPUs : SetpgidAfterExitStep(c)]_vars

\* what holds: when the process is still in the process index in the second
\* section, setpgid returns NO_ERROR with the process on the member list of
\* the target group and of no other group
SetpgidMovesLiveProc ==
    [][\A c \in CPUs :
          /\ threads[current[c]].pc = "sp_insert"
          /\ threads'[current[c]].pc # "sp_insert"
          /\ SetpgidTarget(c) \in proc_hash
          => /\ threads'[current[c]].ret = NO_ERROR
             /\ \A g \in DOMAIN pgid_hash' :
                    SetpgidTarget(c) \in SeqSet(pgid_hash'[g])
                        <=> g = procs'[SetpgidTarget(c)].pgid]_vars

\* a setpgid is between its two sections and its process has been freed
SetpgidTargetFreed ==
    \E r \in Recs :
        /\ threads[r].pc = "sp_insert"
        /\ procs[NormPid(r, threads[r].arg)].state = "FREED"

-----------------------------------------------------------------------------
(* Dispatcher entries on the lock paths: where a call enters thread_resched *)
(* between its lock operations                                              *)

THREAD_RESCHED == "thread_resched"

SIG_FLAG_NO_RESCHED == "NO_RESCHED"

SigFlagSets == { {}, {SIG_FLAG_NO_RESCHED} }

Cat(A, B) == { a \o b : a \in A, b \in B }

RECURSIVE RepSet(_, _)
RepSet(n, A) == IF n = 0 THEN { <<>> } ELSE Cat(A, RepSet(n - 1, A))

\* thread_yield, put_death_stack_and_reschedule: the dispatcher is entered
\* under the thread lock, which the incoming thread releases
thread_yield_steps == <<GRAB_THREAD_LOCK, THREAD_RESCHED, RELEASE_THREAD_LOCK>>

\* send_signal_etc: delivers under the thread lock; without NO_RESCHED it
\* enters the dispatcher when the delivery made a thread runnable
send_signal_etc_steps(flags) ==
    IF SIG_FLAG_NO_RESCHED \in flags
    THEN { ThreadSection }
    ELSE { ThreadSection, thread_yield_steps }

\* a group fan-out that hands the caller's flags through unchanged
send_pgrp_signal_etc_locked_keeps_flags(n, flags) ==
    RepSet(n, send_signal_etc_steps(flags))

\* send_signal_etc(p->main_thread->id, signal, flags | SIG_FLAG_NO_RESCHED)
\* for each of the n members
send_pgrp_signal_etc_locked_steps(n, flags) ==
    RepSet(n, send_signal_etc_steps(flags \cup {SIG_FLAG_NO_RESCHED}))

send_pgrp_signal_etc_steps ==
    UNION { Cat(Cat({ <<GRAB_PROC_LOCK>> }, send_pgrp_signal_etc_locked_steps(n, flags)),
                { <<RELEASE_PROC_LOCK>> })
            : n \in 0..MaxFanOut, flags \in SigFlagSets }

\* send_proc_signal_etc(p->main_thread->id, signal, flags | SIG_FLAG_NO_RESCHED)
\* for each of the n members; each send resolves the id under the process lock
send_session_signal_etc_steps ==
    UNION { Cat(Cat({ <<GRAB_PROC_LOCK>> },
                    RepSet(n, Cat({ proc_get_main_thread_locks },
                                  send_signal_etc_steps(flags \cup {SIG_FLAG_NO_RESCHED})))),
                { <<RELEASE_PROC_LOCK>> })
            : n \in 0..MaxFanOut, flags \in SigFlagSets }

\* send_signal_etc(id, SIGKILLTHR, SIG_FLAG_NO_RESCHED)
thread_kill_thread_nowait_steps == send_signal_etc_steps({SIG_FLAG_NO_RESCHED})

\* send_signal_etc(id, SIGCONT, 0), then the wait under the thread lock
thread_wait_on_thread_steps == Cat(send_signal_etc_steps({}), { ThreadSection })

\* thread_exit of a main thread: the kill loop over n siblings, the teardown
\* section with the orphan SIGHUP and SIGCONT to m members, SIGCHLD to the
\* parent, then the death stack and the final dispatcher entry
thread_exit_steps ==
    UNION { Cat(Cat(Cat(Cat(Cat({ ProcSection \o <<GRAB_PROC_LOCK>> },
                                RepSet(n, thread_kill_thread_nowait_steps)),
                            { <<RELEASE_PROC_LOCK, GRAB_PROC_LOCK>> }),
                        Cat(send_pgrp_signal_etc_locked_steps(m, {SIG_FLAG_NO_RESCHED}),
                            send_pgrp_signal_etc_locked_steps(m, {SIG_FLAG_NO_RESCHED}))),
                    Cat({ <<RELEASE_PROC_LOCK>> \o proc_get_main_thread_locks },
                        send_signal_etc_steps({SIG_FLAG_NO_RESCHED}))),
                { get_death_stack_locks \o thread_exit2_locks \o thread_yield_steps })
            : n \in 0..1, m \in 0..1 }

\* thread_atkernel_exit: handle_signals, thread_resched if it asks for one
thread_atkernel_exit_steps == { ThreadSection, thread_yield_steps }

ReschedPaths ==
    { thread_yield_steps } \cup thread_atkernel_exit_steps
    \cup thread_wait_on_thread_steps \cup thread_kill_thread_nowait_steps
    \cup send_pgrp_signal_etc_steps \cup send_session_signal_etc_steps
    \cup thread_exit_steps

\* a CPU enters one of the calls
resched_call(c) ==
    /\ lock_path[c] = <<>>
    /\ \E path \in ReschedPaths : lock_path' = [lock_path EXCEPT ![c] = path]
    /\ UNCHANGED <<proc_spinlock, thread_spinlock>>
    /\ UNCHANGED kernelVars

\* the CPU enters thread_resched; the thread lock stays held across the switch
enter_resched(c) ==
    /\ NextLockOp(c) = THREAD_RESCHED
    /\ thread_spinlock = c
    /\ lock_path' = [lock_path EXCEPT ![c] = Tail(@)]
    /\ UNCHANGED <<proc_spinlock, thread_spinlock>>
    /\ UNCHANGED kernelVars

NextResched ==
    \E c \in LockCPUs :
        \/ resched_call(c)
        \/ acquire_spinlock(c)
        \/ release_spinlock(c)
        \/ enter_resched(c)

SpecResched == Init /\ [][NextResched]_vars

\* C38: a CPU that is about to enter the dispatcher (thread_resched) does not
\* hold the process lock: the sends of the group fan-out, the session fan-out,
\* the sibling kill loop and the orphan SIGHUP/SIGCONT of the exit path all
\* carry NO_RESCHED and return without a dispatcher entry
NoReschedUnderProcLock ==
    \A c \in LockCPUs : NextLockOp(c) = THREAD_RESCHED => proc_spinlock # c

\* C38 witness: one CPU is inside a send of a fan-out, holding the thread lock
\* inside the process lock with nothing but the two releases left of its
\* delivery, while another CPU waits for the thread lock to enter the
\* dispatcher
FanOutSendWithoutResched ==
    \E c1, c2 \in LockCPUs :
        /\ c1 # c2
        /\ proc_spinlock = c1 /\ thread_spinlock = c1
        /\ NextLockOp(c1) = RELEASE_THREAD_LOCK
        /\ Len(lock_path[c2]) >= 2
        /\ lock_path[c2][1] = GRAB_THREAD_LOCK
        /\ lock_path[c2][2] = THREAD_RESCHED

-----------------------------------------------------------------------------
(* A kernel thread waits for a user process whose main thread exits while  *)
(* another kernel thread moves that process to a new group                 *)

ReapProcs == 3        \* process ids in use in SpecReap

ReapPreemptPcs == {"pc_publish", "pc_setup", "pc_resume", "launch", "sp_lock",
                   "sp_alloc", "sp_insert", "te_teardown", "te_sigchld",
                   "te_retcode", "tw_lookup", "tw_acquire"}

NextReap ==
    \E c \in CPUs :
        \/ thread_yield(c)
        \/ threads[current[c]].pc \in ReapPreemptPcs /\ reschedule_event(c)
        \/ next_thread_id <= BootThread + 1 /\ thread_create_thread(c)
        \/ \E id \in {BootThread, BootThread + 1} : thread_resume_thread(c, id)
        \/ ct_hash(c)
        \/ ct_proc(c)
        \/ ct_finish(c)
        \/ /\ next_proc_id <= KERNEL_PROC + 1
           /\ threads[current[c]].id = BootThread
           /\ proc_create_proc(c, {"NEW_SESSION", "NEW_PGROUP"})
        \/ /\ next_proc_id <= ReapProcs
           /\ threads[current[c]].proc = KERNEL_PROC + 1
           /\ proc_create_proc(c, {})
        \/ pc_publish(c)
        \/ pc_setup(c)
        \/ pc_resume(c)
        \/ pc_err1(c)
        \/ proc_create_proc2(c)
        \/ /\ threads[current[c]].id = BootThread
           /\ setpgid(c, KERNEL_PROC + 1, ReapProcs + 1)
        \/ sp_lock(c)
        \/ sp_alloc(c)
        \/ sp_insert(c)
        \/ /\ threads[current[c]].id = BootThread + 1
           /\ proc_wait_on_proc(c, KERNEL_PROC + 1)
        \/ tw_lookup(c)
        \/ tw_acquire(c)
        \/ tw_return(c)
        \/ threads[current[c]].proc = KERNEL_PROC + 1 /\ thread_exit(c, 0)
        \/ te_detach(c)
        \/ te_kill(c)
        \/ te_teardown(c)
        \/ te_sigchld(c)
        \/ te_retcode(c)
        \/ te_gate(c)
        \/ te_bitmap(c)
        \/ te_exit2(c)
        \/ te_unhash(c)
        \/ te_put(c)

SpecReap == Init /\ [][NextReap]_vars

\* the waiter was woken by the deletion of the return-code semaphore and has
\* not returned yet
WokenByExit(w) ==
    /\ threads[w].pc = "tw_return"
    /\ threads[w].ret = ERR_SEM_DELETED

\* the user processes whose main thread the waiter waits for
WaitedProcs(w) ==
    {P \in ProcIds \ {KERNEL_PROC} :
        /\ procs[P].main_thread # NULL
        /\ threads[procs[P].main_thread].id = threads[w].arg}

OnSomeSessionList(h, p) == \E s \in DOMAIN h : p \in SeqSet(h[s])

OutOfIndexAndReparented(P) ==
    /\ P \notin proc_hash
    /\ \A q \in proc_hash : procs[q].parent # P

\* the exiting thread is past send_proc_signal_etc(parent_pid, SIGCHLD, ...)
PastSigchld(r) ==
    threads[r].pc \in {"te_gate", "te_bitmap", "te_exit2", "te_unhash", "te_put", "dead"}

OffGroupLists(P) == ~OnSomeGroupList(pgid_hash, P)

OffSessionLists(P) == ~OnSomeSessionList(sid_hash, P)

\* C39: while a waiter that the deletion of the main thread's return-code
\* semaphore woke is on its way out of proc_wait_on_proc, the process is out
\* of the process index, no process has it as parent, it is on no group list
\* and on no session list, and its main thread is past the SIGCHLD send
ExitCompleteWhenWaiterWakes ==
    \A w \in Recs :
        WokenByExit(w) =>
            \A P \in WaitedProcs(w) :
                /\ OutOfIndexAndReparented(P)
                /\ OffGroupLists(P)
                /\ OffSessionLists(P)
                /\ PastSigchld(procs[P].main_thread)

\* C39, what holds: everything but the group list
ExitCompleteButGroupList ==
    \A w \in Recs :
        WokenByExit(w) =>
            \A P \in WaitedProcs(w) :
                /\ OutOfIndexAndReparented(P)
                /\ OffSessionLists(P)
                /\ PastSigchld(procs[P].main_thread)

\* C39: a woken waiter of a process that had a child when it exited
WaiterWokenAfterReparenting ==
    \E w \in Recs :
        /\ WokenByExit(w)
        /\ WaitedProcs(w) # {}
        /\ \E q \in proc_hash : q > KERNEL_PROC + 1 /\ procs[q].parent = KERNEL_PROC

-----------------------------------------------------------------------------
(* UDP endpoints (src/kernel/net/udp.c lines 1-362): sockets open and     *)
(* close endpoints while input threads deliver received packets to them.  *)
(* Owner o owns endpoint record o.  The critical sections under            *)
(* endpoints_lock and under an endpoint's lock are one step each; a        *)
(* release is the atomic decrement, then the teardown when it was the last *)

udp_queue_push(q, qe) == Append(q, qe)

\* atomic_add(&e->ref_count, 1): the count is left as it was
udp_endpoint_acquire_ref_dropped(E, e) == E

\* atomic_add(&e->ref_count, 1)
udp_endpoint_acquire_ref(E, e) == [E EXCEPT ![e].ref_count = @ + 1]

\* hash_lookup(endpoints, &port): the endpoints in the table with this port
EndpointsOnPort(port) == {e \in endpoints : udp_endpoint[e].port = port}

NetUnchanged == UNCHANGED <<threadVars, spinVars>>

\* udp_open: set the endpoint up with one reference and insert it
udp_open(o, port) ==
    /\ net_threads[o].pc = "idle"
    /\ udp_endpoint[o].lock = "none"
    /\ udp_endpoint' = [udp_endpoint EXCEPT
                            ![o] = [port |-> port, ref_count |-> 1, q |-> <<>>,
                                    lock |-> "live", blocking_sem |-> "live",
                                    sem_count |-> 0, teardowns |-> 0]]
    /\ endpoints' = endpoints \cup {o}
    /\ net_threads' = [net_threads EXCEPT ![o].pc = "open", ![o].e = o]
    /\ UNCHANGED cbufs
    /\ NetUnchanged

\* udp_recvfrom: sem_acquire(e->blocking_sem, 1) returns once a unit is there;
\* pop under the endpoint's lock, copy out and free the packet, or retry on an
\* empty queue
udp_recvfrom(o) ==
    /\ net_threads[o].pc = "open"
    /\ udp_endpoint[o].sem_count > 0
    /\ LET q == udp_endpoint[o].q IN
       /\ udp_endpoint' = [udp_endpoint EXCEPT
                               ![o].sem_count = @ - 1,
                               ![o].q = IF q = <<>> THEN q ELSE Tail(q)]
       /\ cbufs' = IF q = <<>> THEN cbufs ELSE [cbufs EXCEPT ![Head(q)] = "received"]
    /\ UNCHANGED <<endpoints, net_threads>>
    /\ NetUnchanged

\* udp_close: hash_remove under endpoints_lock, then drop the owner's reference
udp_close(o) ==
    /\ net_threads[o].pc = "open"
    /\ endpoints' = endpoints \ {o}
    /\ net_threads' = [net_threads EXCEPT ![o].pc = "ur_release", ![o].after = "closed"]
    /\ UNCHANGED <<udp_endpoint, cbufs>>
    /\ NetUnchanged

\* udp_endpoint_release_ref: atomic_add(&e->ref_count, -1) == 1 decides
\* whether this caller tears the endpoint down
ur_release(t) ==
    /\ net_threads[t].pc = "ur_release"
    /\ LET e == net_threads[t].e
           prior == udp_endpoint[e].ref_count
       IN  /\ udp_endpoint' = [udp_endpoint EXCEPT ![e].ref_count = prior - 1]
           /\ net_threads' = [net_threads EXCEPT
                                  ![t].pc = IF prior = 1 THEN "ur_teardown"
                                            ELSE net_threads[t].after]
    /\ UNCHANGED <<endpoints, cbufs>>
    /\ NetUnchanged

\* udp_endpoint_release_ref, the last reference: mutex_destroy, sem_delete and
\* the loop that pops and frees every queued packet
ur_teardown(t) ==
    /\ net_threads[t].pc = "ur_teardown"
    /\ LET e == net_threads[t].e
           q == udp_endpoint[e].q
       IN  /\ udp_endpoint' = [udp_endpoint EXCEPT
                                   ![e].lock = "destroyed",
                                   ![e].blocking_sem = "deleted",
                                   ![e].q = <<>>,
                                   ![e].teardowns = @ + 1]
           /\ cbufs' = [b \in Cbufs |->
                           IF \E k \in DOMAIN q : q[k] = b THEN "freed" ELSE cbufs[b]]
           /\ net_threads' = [net_threads EXCEPT ![t].pc = net_threads[t].after]
    /\ UNCHANGED endpoints
    /\ NetUnchanged

\* udp_input up to the end of its endpoints_lock section: a bad packet
\* (port 0) or a port without endpoint is ditched, otherwise the endpoint found
\* is referenced before the lock is released
udp_input(i, b, port) ==
    /\ net_threads[i].pc = "idle"
    /\ cbufs[b] = "wire"
    /\ IF EndpointsOnPort(port) = {}
       THEN /\ cbufs' = [cbufs EXCEPT ![b] = "freed"]
            /\ UNCHANGED <<udp_endpoint, net_threads>>
       ELSE \E e \in EndpointsOnPort(port) :
                /\ udp_endpoint' = udp_endpoint_acquire_ref(udp_endpoint, e)
                /\ cbufs' = [cbufs EXCEPT ![b] = "input"]
                /\ net_threads' = [net_threads EXCEPT
                                       ![i] = [pc |-> "ui_alloc", e |-> e,
                                               buf |-> b, after |-> ""]]
    /\ UNCHANGED endpoints
    /\ NetUnchanged

\* qe = kmalloc(sizeof(udp_queue_elem)); without memory the reference is
\* released and the packet ditched
ui_alloc(i) ==
    /\ net_threads[i].pc = "ui_alloc"
    /\ \E qe \in BOOLEAN :
           net_threads' = [net_threads EXCEPT
                               ![i].pc = IF qe THEN "ui_push" ELSE "ur_release",
                               ![i].after = IF qe THEN "" ELSE "ui_ditch"]
    /\ UNCHANGED <<endpoints, udp_endpoint, cbufs>>
    /\ NetUnchanged

\* udp_queue_push under the endpoint's lock
ui_push(i) ==
    /\ net_threads[i].pc = "ui_push"
    /\ LET e == net_threads[i].e
           b == net_threads[i].buf
       IN  /\ udp_endpoint' = [udp_endpoint EXCEPT ![e].q = udp_queue_push(@, b)]
           /\ cbufs' = [cbufs EXCEPT ![b] = "queued"]
    /\ net_threads' = [net_threads EXCEPT ![i].pc = "ui_sem"]
    /\ UNCHANGED endpoints
    /\ NetUnchanged

\* sem_release(e->blocking_sem, 1), then udp_endpoint_release_ref(e)
ui_sem(i) ==
    /\ net_threads[i].pc = "ui_sem"
    /\ LET e == net_threads[i].e IN
       udp_endpoint' = [udp_endpoint EXCEPT
                            ![e].sem_count = IF udp_endpoint[e].blocking_sem = "live"
                                             THEN @ + 1 ELSE @]
    /\ net_threads' = [net_threads EXCEPT ![i].pc = "ur_release", ![i].after = "ui_return"]
    /\ UNCHANGED <<endpoints, cbufs>>
    /\ NetUnchanged

\* ditch_packet: cbuf_free_chain(buf)
ui_ditch(i) ==
    /\ net_threads[i].pc = "ui_ditch"
    /\ cbufs' = [cbufs EXCEPT ![net_threads[i].buf] = "freed"]
    /\ net_threads' = [net_threads EXCEPT ![i] = NetIdle]
    /\ UNCHANGED <<endpoints, udp_endpoint>>
    /\ NetUnchanged

\* return NO_ERROR
ui_return(i) ==
    /\ net_threads[i].pc = "ui_return"
    /\ net_threads' = [net_threads EXCEPT ![i] = NetIdle]
    /\ UNCHANGED <<endpoints, udp_endpoint, cbufs>>
    /\ NetUnchanged

NextUdp ==
    \/ \E o \in Owners :
        \/ \E port \in Ports : udp_open(o, port)
        \/ udp_recvfrom(o)
        \/ udp_close(o)
    \/ \E t \in NetThreads :
        \/ ur_release(t)
        \/ ur_teardown(t)
    \/ \E i \in Inputs :
        \/ \E b \in Cbufs, port \in 0..NumPorts : udp_input(i, b, port)
        \/ ui_alloc(i)
        \/ ui_push(i)
        \/ ui_sem(i)
        \/ ui_ditch(i)
        \/ ui_return(i)

SpecUdp == Init /\ [][NextUdp]_vars

\* the udp_input calls that hold the reference they took under endpoints_lock
RefHolders(e) ==
    {i \in Inputs : /\ net_threads[i].e = e
                    /\ net_threads[i].pc \in {"ui_alloc", "ui_push", "ui_sem", "ur_release"}}

UdpEndpointSanity ==
    \A e \in Endpoints :
        /\ udp_endpoint[e].teardowns <= 1
        /\ udp_endpoint[e].ref_count >= 0
        /\ RefHolders(e) # {} => udp_endpoint[e].teardowns = 0 /\ udp_endpoint[e].lock = "live"
        /\ udp_endpoint[e].teardowns = 1 => udp_endpoint[e].q = <<>> /\ e \notin endpoints
        /\ \A t \in NetThreads :
               net_threads[t].pc = "ur_teardown" /\ net_threads[t].e = e
                   => udp_endpoint[e].ref_count = 0 /\ RefHolders(e) = {}

\* every packet is in one place: a queued one on the queue of an endpoint still
\* to be torn down, one in flight with its udp_input call
CbufsAccounted ==
    \A b \in Cbufs :
        /\ cbufs[b] = "queued"
               => \E e \in Endpoints :
                      /\ \E k \in DOMAIN udp_endpoint[e].q : udp_endpoint[e].q[k] = b
                      /\ udp_endpoint[e].teardowns = 0
                      /\ udp_endpoint[e].ref_count > 0
                             \/ \E t \in NetThreads : /\ net_threads[t].pc = "ur_teardown"
                                                      /\ net_threads[t].e = e
        /\ cbufs[b] = "input"
               => \E i \in Inputs : net_threads[i].buf = b /\ net_threads[i].pc # "idle"

UdpReleaseStep(t) ==
    net_threads[t].pc = "ur_release" /\ net_threads'[t].pc # "ur_release"
        => LET e == net_threads[t].e IN
           /\ (net_threads'[t].pc = "ur_teardown") <=> (udp_endpoint[e].ref_count = 1)
           /\ udp_endpoint'[e].ref_count = udp_endpoint[e].ref_count - 1

UdpTeardownStep(e) ==
    udp_endpoint'[e].teardowns # udp_endpoint[e].teardowns
        => /\ udp_endpoint[e].ref_count = 0
           /\ RefHolders(e) = {}
           /\ \A k \in DOMAIN udp_endpoint[e].q : cbufs'[udp_endpoint[e].q[k]] = "freed"
           /\ udp_endpoint'[e].lock = "destroyed"
           /\ udp_endpoint'[e].blocking_sem = "deleted"

UdpAcquireStep(e) ==
    udp_endpoint'[e].ref_count > udp_endpoint[e].ref_count
        => /\ e \in endpoints'
           /\ net_threads[e].pc \in {"idle", "open"}

\* C40: an endpoint is torn down at most once, by the release that finds the
\* count at 1, with mutex, semaphore and every queued packet gone afterwards
\* and never while a udp_input call holds the reference it took under the
\* endpoints lock; no reference is taken once udp_close has removed the
\* endpoint from the table; and a packet that an in-flight udp_input queues
\* after the close stays on the queue until the final release frees it
UdpEndpointTornDownOnce ==
    /\ [](UdpEndpointSanity /\ CbufsAccounted)
    /\ [][/\ \A t \in NetThreads : UdpReleaseStep(t)
          /\ \A e \in Endpoints : UdpTeardownStep(e) /\ UdpAcquireStep(e)]_vars

\* C40 witness: the owner has closed the endpoint and returned, and the
\* udp_input call that was in flight has queued its packet, dropped the last
\* reference and is about to tear the endpoint down
InputDropsLastRef ==
    \E i \in Inputs, e \in Endpoints :
        /\ net_threads[i].pc = "ur_teardown"
        /\ net_threads[i].e = e
        /\ net_threads[i].after = "ui_return"
        /\ net_threads[e].pc = "closed"
        /\ \E k \in DOMAIN udp_endpoint[e].q : udp_endpoint[e].q[k] = net_threads[i].buf

====
